---------------------------- MODULE Spec2Model ----------------------------
(***************************************************************************)
(* Model of src/airobot/utils/ur_tcp_util.py: the client of the secondary  *)
(* TCP interface of a UR robot.                                            *)
(*                                                                         *)
(*   ParserUtils       byte-level framing (find_first_packet) and decoding *)
(*                     (parse, _get_data) as operators over byte sequences *)
(*   SecondaryMonitor  the worker thread (run), the callers of             *)
(*                     send_program, wait and the typed getters, as a      *)
(*                     state machine with one step per statement that      *)
(*                     touches shared state                                *)
(*                                                                         *)
(* Three specifications share the definitions:                             *)
(*   Spec       the concurrent SecondaryMonitor                            *)
(*   SpecParse  ParserUtils.parse, one loop iteration per step             *)
(*   SpecScan   SecondaryMonitor._get_data over a byte stream              *)
(***************************************************************************)
EXTENDS Integers, Sequences, FiniteSets, TLC

(***************************************************************************)
(* Python values.  A bytes object is a sequence of integers 0..255.  A     *)
(* struct format string is a sequence of one-character strings.  A dict is *)
(* a function whose domain is its set of keys.                             *)
(***************************************************************************)
EmptyDict == <<>>

\* d[k] = v on a dict
DictSet(d, k, v) == (k :> v) @@ d

\* a Python slice bound, clamped as s[lo:hi] clamps it
PyIndex(i, n) ==
    IF i < 0 THEN (IF i + n < 0 THEN 0 ELSE i + n)
    ELSE (IF i > n THEN n ELSE i)

\* s[lo:hi]
PySlice(s, lo, hi) ==
    LET a == PyIndex(lo, Len(s))
        b == PyIndex(hi, Len(s))
    IN  IF a >= b THEN <<>> ELSE SubSeq(s, a + 1, b)

\* s[k:]
PyFrom(s, k) == PySlice(s, k, Len(s))

\* str.strip() on a sequence of characters
RECURSIVE LStrip(_)
LStrip(s) ==
    IF Len(s) > 0 /\ s[1] \in {" ", "\n", "\t", "\r"} THEN LStrip(Tail(s)) ELSE s

RECURSIVE RStrip(_)
RStrip(s) ==
    IF Len(s) > 0 /\ s[Len(s)] \in {" ", "\n", "\t", "\r"}
    THEN RStrip(SubSeq(s, 1, Len(s) - 1)) ELSE s

Strip(s) == RStrip(LStrip(s))

(***************************************************************************)
(* struct.calcsize and struct.unpack("!" + f, ...) for the format          *)
(* characters the parser uses.  32-bit values are integers; the 64-bit     *)
(* 'Q' and the floating point 'd' and 'f' are kept as the big-endian bytes *)
(* of the value, which is the value's numeral in base 256.                 *)
(***************************************************************************)
calcsize(f) ==
    CASE f \in {"c", "b", "B", "?"} -> 1
      [] f = "h" -> 2
      [] f \in {"i", "I", "f"} -> 4
      [] f \in {"Q", "d"} -> 8

SignedByte(b) == IF b >= 128 THEN b - 256 ELSE b

unpack(f, b) ==
    CASE f = "B" -> b[1]
      [] f = "b" -> SignedByte(b[1])
      [] f = "?" -> b[1] # 0
      [] f = "c" -> <<b[1]>>
      [] f = "h" -> SignedByte(b[1]) * 256 + b[2]
      [] f = "i" -> SignedByte(b[1]) * 16777216 + b[2] * 65536 + b[3] * 256 + b[4]
      [] f = "I" -> b[1] * 16777216 + b[2] * 65536 + b[3] * 256 + b[4]
      [] f \in {"Q", "d", "f"} -> b

(***************************************************************************)
(* The packet layouts of ParserUtils.parse: each struct format with the    *)
(* key names it is unpacked into, as written in the source.                *)
(***************************************************************************)
\* struct format at line 104, one element per character
FmtSCD ==
    <<"!", "i", "B">>

KeysSCD ==
    <<"size", "type">>

\* struct format at line 115, one element per character
FmtRMD38 ==
    <<"!", "I", "B", "Q", "?", "?", "?", "?", "?", "?", "?", "B", "B", "d",
      "d">>

KeysRMD38 ==
    <<"size", "type", "timestamp", "isRobotConnected", "isRealRobotEnabled",
      "isPowerOnRobot", "isEmergencyStopped", "isSecurityStopped",
      "isProgramRunning", "isProgramPaused", "robotMode", "controlMode",
      "speedFraction", "speedScaling">>

\* struct format at line 127, one element per character
FmtRMD46 ==
    <<"!", "I", "B", "Q", "?", "?", "?", "?", "?", "?", "?", "B", "B", "d",
      "d">>

KeysRMD46 ==
    <<"size", "type", "timestamp", "isRobotConnected", "isRealRobotEnabled",
      "isPowerOnRobot", "isEmergencyStopped", "isSecurityStopped",
      "isProgramRunning", "isProgramPaused", "robotMode", "controlMode",
      "speedFraction", "speedScaling", "speedFractionLimit">>

\* struct format at line 139, one element per character
FmtRMD47 ==
    <<"!", "I", "B", "Q", "?", "?", "?", "?", "?", "?", "?", "B", "B", "d",
      "d", "c">>

KeysRMD47 ==
    <<"size", "type", "timestamp", "isRobotConnected", "isRealRobotEnabled",
      "isPowerOnRobot", "isEmergencyStopped", "isSecurityStopped",
      "isProgramRunning", "isProgramPaused", "robotMode", "controlMode",
      "speedFraction", "speedScaling", "speedFractionLimit",
      "reservedByUR">>

\* struct format at line 150, one element per character
FmtRMDLegacy ==
    <<"!", "i", "B", "Q", "?", "?", "?", "?", "?", "?", "?", "B", "d">>

KeysRMDLegacy ==
    <<"size", "type", "timestamp", "isRobotConnected", "isRealRobotEnabled",
      "isPowerOnRobot", "isEmergencyStopped", "isSecurityStopped",
      "isProgramRunning", "isProgramPaused", "robotMode", "speedFraction">>

\* struct format at line 167, one element per character
FmtJoint ==
    <<"!", "i", "B", " ", "d", "d", "d", "f", "f", "f", "f", "B", " ", "d",
      "d", "d", "f", "f", "f", "f", "B", " ", "d", "d", "d", "f", "f", "f",
      "f", "B", "d", "d", "d", "f", "f", "f", "f", "B", " ", "d", "d", "d",
      "f", "f", "f", "f", "B", " ", "d", "d", "d", "f", "f", "f", "f", "B">>

KeysJoint ==
    <<"size", "type", "q_actual0", "q_target0", "qd_actual0", "I_actual0",
      "V_actual0", "T_motor0", "T_micro0", "jointMode0", "q_actual1",
      "q_target1", "qd_actual1", "I_actual1", "V_actual1", "T_motor1",
      "T_micro1", "jointMode1", "q_actual2", "q_target2", "qd_actual2",
      "I_actual2", "V_actual2", "T_motor2", "T_micro2", "jointMode2",
      "q_actual3", "q_target3", "qd_actual3", "I_actual3", "V_actual3",
      "T_motor3", "T_micro3", "jointMode3", "q_actual4", "q_target4",
      "qd_actual4", "I_actual4", "V_actual4", "T_motor4", "T_micro4",
      "jointMode4", "q_actual5", "q_target5", "qd_actual5", "I_actual5",
      "V_actual5", "T_motor5", "T_micro5", "jointMode5">>

\* struct format at line 174, one element per character
FmtCart6 ==
    <<"i", "B", "d", "d", "d", "d", "d", "d">>

KeysCart6 ==
    <<"size", "type", "X", "Y", "Z", "Rx", "Ry", "Rz">>

\* struct format at line 179, one element per character
FmtCart12 ==
    <<"i", "B", "d", "d", "d", "d", "d", "d", "d", "d", "d", "d", "d", "d">>

KeysCart12 ==
    <<"size", "type", "X", "Y", "Z", "Rx", "Ry", "Rz", "tcpOffsetX",
      "tcpOffsetY", "tcpOffsetZ", "tcpOffsetRx", "tcpOffsetRy",
      "tcpOffsetRz">>

\* struct format at line 187, one element per character
FmtLaser ==
    <<"i", "B", "d", "d", "d">>

KeysLaser ==
    <<"size", "type">>

\* struct format at line 191, one element per character
FmtMB32 ==
    <<"i", "B", "i", "i", "b", "b", "d", "d", "b", "b", "d", "d", "f", "f",
      "f", "f", "B", "B", "b">>

\* struct format at line 193, one element per character
FmtMB16 ==
    <<"i", "B", "h", "h", "b", "b", "d", "d", "b", "b", "d", "d", "f", "f",
      "f", "f", "B", "B", "b">>

KeysMB ==
    <<"size", "type", "digitalInputBits", "digitalOutputBits",
      "analogInputRange0", "analogInputRange1", "analogInput0",
      "analogInput1", "analogInputDomain0", "analogInputDomain1",
      "analogOutput0", "analogOutput1", "masterBoardTemperature",
      "robotVoltage48V", "robotCurrent", "masterIOCurrent">>

\* struct format at line 209, one element per character
FmtTool ==
    <<"i", "B", "b", "b", "d", "d", "f", "B", "f", "f", "B">>

KeysTool ==
    <<"size", "type", "analoginputRange2", "analoginputRange3",
      "analogInput2", "analogInput3", "toolVoltage48V", "toolOutputVoltage",
      "toolCurrent", "toolTemperature", "toolMode">>

\* struct format at line 223, one element per character
FmtAddInfo ==
    <<"i", "B", "?", "?">>

KeysAddInfo ==
    <<"size", "type", "teachButtonPressed", "teachButtonEnabled">>

\* struct format at line 230, one element per character
FmtForce ==
    <<"i", "B", "d", "d", "d", "d", "d", "d", "d">>

KeysForce ==
    <<"size", "type", "x", "y", "z", "rx", "ry", "rz", "robotDexterity">>

\* struct format at line 236, one element per character
FmtMsgHead ==
    <<"!", "i", "B", " ", "Q", "b", "b">>

KeysMsgHead ==
    <<"size", "type", "timestamp", "source", "robotMessageType">>

\* struct format at line 243, one element per character
FmtVersion ==
    <<"!", "i", "B", "Q", "b", "b", " ", "b", "A", "b", "B", "B", "i", "A",
      "b">>

KeysVersion ==
    <<"size", "type", "timestamp", "source", "robotMessageType",
      "projectNameSize", "projectName", "majorVersion", "minorVersion",
      "svnRevision", "buildDate">>

\* struct format at line 252, one element per character
FmtComm ==
    <<"!", "i", "B", "Q", "b", "b", " ", "i", "i", "A", "c">>

KeysComm ==
    <<"size", "type", "timestamp", "source", "robotMessageType", "code",
      "argument", "messageText">>

\* struct format at line 260, one element per character
FmtLabel ==
    <<"!", "i", "B", "Q", "b", "b", " ", "i", "A", "c">>

KeysLabel ==
    <<"size", "type", "timestamp", "source", "robotMessageType", "id",
      "messageText">>

\* struct format at line 267, one element per character
FmtPopup ==
    <<"!", "i", "B", "Q", "b", "b", " ", "?", "?", "B", "A", "c", "A", "c">>

KeysPopup ==
    <<"size", "type", "timestamp", "source", "robotMessageType", "warning",
      "error", "titleSize", "messageTitle", "messageText">>

\* struct format at line 275, one element per character
FmtText ==
    <<"!", "i", "B", "Q", "b", "b", " ", "A", "c">>

KeysText ==
    <<"size", "type", "timestamp", "source", "robotMessageType",
      "messageText">>

\* struct format at line 282, one element per character
FmtVar ==
    <<"!", "i", "B", "Q", "b", "b", " ", "i", "i", "B", "A", "c", "A", "c">>

KeysVar ==
    <<"size", "type", "timestamp", "source", "robotMessageType", "code",
      "argument", "titleSize", "messageTitle", "messageText">>

\* struct format at line 290, one element per character
FmtKey7 ==
    <<"!", "i", "B", "Q", "b", "b", " ", "i", "i", "B", "A", "c", "A", "c">>

KeysKey7 ==
    <<"size", "type", "timestamp", "source", "robotMessageType", "code",
      "argument", "titleSize", "messageTitle", "messageText">>

\* struct format at line 298, one element per character
FmtKey5 ==
    <<"!", "i", "B", "Q", "b", "b", " ", "i", "i", "A", "c">>

KeysKey5 ==
    <<"size", "type", "timestamp", "source", "robotMessageType", "code",
      "argument", "messageText">>

(***************************************************************************)
(* ParserUtils._get_data: fill a dict from packet data, one key per format *)
(* character.  i and j are the source's 0-based indices into key_names and *)
(* fmt.  The result is [ok, d]: ok is FALSE when the source raises         *)
(* ParsingException (or KeyError for an array size that was never read).   *)
(***************************************************************************)
\* asn.endswith("Size") over the key names of the layouts
EndsWithSize(asn) == asn \in {"projectNameSize", "titleSize"}

\* key_names[i - 1] with Python's negative index
SizeKeyName(key_names, i) == key_names[IF i = 0 THEN Len(key_names) ELSE i]

\* a variant in which every array takes the rest of the packet
IsLastArrayAlways(fmt, j) == TRUE

\* "we are last element": the array takes the rest of the packet
IsLastArray(fmt, j) == j = Len(fmt) - 2

\* the element of a one-element set: {F(n) : n \in {v}} computes v, the
\* state of a loop after an iteration, once, before F uses it
Only(S) == CHOOSE x \in S : TRUE

\* the while loop of _get_data; n is tmpdata and d after the iteration
RECURSIVE GetDataLoop(_, _, _, _, _, _)
GetDataLoop(tmpdata, fmt, key_names, d, i, j) ==
    IF ~(j < Len(fmt) /\ i < Len(key_names)) THEN [ok |-> TRUE, d |-> d]
    ELSE
      LET f == fmt[j + 1] IN
      IF f \in {" ", "!", ">", "<"}
      THEN GetDataLoop(tmpdata, fmt, key_names, d, i, j + 1)
      ELSE IF f = "A"
      THEN
        LET asn == SizeKeyName(key_names, i) IN
        IF ~IsLastArray(fmt, j) /\ (~EndsWithSize(asn) \/ asn \notin DOMAIN d)
        THEN [ok |-> FALSE, d |-> d]
        ELSE
          LET arraysize == IF IsLastArray(fmt, j) THEN Len(tmpdata) ELSE d[asn]
          IN  Only({GetDataLoop(n.tmpdata, fmt, key_names, n.d, i + 1, j + 2) :
                    n \in {[tmpdata |-> PyFrom(tmpdata, arraysize),
                            d |-> DictSet(d, key_names[i + 1],
                                          PySlice(tmpdata, 0, arraysize))]}})
      ELSE
        LET fmtsize == calcsize(f) IN
        IF Len(tmpdata) < fmtsize
        THEN [ok |-> FALSE, d |-> d]
        ELSE Only({GetDataLoop(n.tmpdata, fmt, key_names, n.d, i + 1, j + 1) :
                   n \in {[tmpdata |-> PyFrom(tmpdata, fmtsize),
                           d |-> DictSet(d, key_names[i + 1],
                                         unpack(f, PySlice(tmpdata, 0, fmtsize)))]}})

\* a is the loop's state before the first iteration: tmpdata = data,
\* fmt = struct_fmt.strip()
_get_data(data, struct_fmt, key_names) ==
    Only({GetDataLoop(a.tmpdata, a.fmt, a.key_names, EmptyDict, 0, 0) :
          a \in {[tmpdata |-> data, fmt |-> Strip(struct_fmt),
                  key_names |-> key_names]}})

(***************************************************************************)
(* Headers and framing.                                                    *)
(***************************************************************************)
\* struct.unpack("!iB", data[0:5]); the callers check len(data) >= 5
get_header(data) ==
    [packet_size |-> unpack("i", PySlice(data, 0, 4)), packet_type |-> data[5]]

\* [ok, psize, ptype, pdata, rest]; ok is FALSE when ParsingException is raised
analyze_header(data) ==
    IF Len(data) < 5
    THEN [ok |-> FALSE, psize |-> 0, ptype |-> 0, pdata |-> <<>>, rest |-> <<>>]
    ELSE
      LET h == get_header(data) IN
      IF h.packet_size < 5 \/ h.packet_size > Len(data)
      THEN [ok |-> FALSE, psize |-> h.packet_size, ptype |-> h.packet_type,
            pdata |-> <<>>, rest |-> <<>>]
      ELSE [ok |-> TRUE, psize |-> h.packet_size, ptype |-> h.packet_type,
            pdata |-> PySlice(data, 0, h.packet_size),
            rest |-> PyFrom(data, h.packet_size)]

\* a variant of the header test that accepts any declared size
HeaderHasType16(psize, ptype) == ptype = 16

\* the header test of find_first_packet: a size in 5..2000 and type 16
HeaderLooksValid(psize, ptype) == ~(psize < 5 \/ psize > 2000 \/ ptype # 16)

\* a variant that throws the five header bytes away at once
DropHeaderBytes(data) == PyFrom(data, 5)

\* "move one byte at a time along datastream"
DropOneByte(data) == PyFrom(data, 1)

\* [found, frame, rest, counter]; found is FALSE when the source returns None
RECURSIVE FindLoop(_, _)
FindLoop(data, counter) ==
    IF Len(data) >= 5
    THEN
      LET h == get_header(data) IN
      IF ~HeaderLooksValid(h.packet_size, h.packet_type)
      THEN FindLoop(DropOneByte(data), counter + 1)
      ELSE IF Len(data) >= h.packet_size
      THEN [found |-> TRUE, frame |-> PySlice(data, 0, h.packet_size),
            rest |-> PyFrom(data, h.packet_size), counter |-> counter]
      ELSE [found |-> FALSE, frame |-> <<>>, rest |-> <<>>, counter |-> counter]
    ELSE [found |-> FALSE, frame |-> <<>>, rest |-> <<>>, counter |-> counter]

find_first_packet(data) == FindLoop(data, 0)

(***************************************************************************)
(* ParserUtils.parse.  ParseStep is one iteration of "while data:"; its    *)
(* result is [ok, data, version, allData], ok FALSE when the iteration     *)
(* raises ParsingException (version keeps what it was assigned before the  *)
(* raise).                                                                 *)
(***************************************************************************)
\* a variant that compares the major numbers only
VersionLessMajor(a, b) == a[1] < b[1]

\* comparison of (major, minor) tuples
VersionLess(a, b) == a[1] < b[1] \/ (a[1] = b[1] /\ a[2] < b[2])

VersionAtLeast(a, b) == ~VersionLess(a, b)

InitialVersion == <<0, 0>>

\* a variant that only ever raises the version
RobotModeVersionRaiseOnly(psize, version) ==
    LET v == CASE psize = 38 -> <<3, 0>>
               [] psize = 46 -> <<3, 2>>
               [] psize = 47 -> <<3, 5>>
               [] OTHER -> version
    IN  IF VersionLess(version, v) THEN v ELSE version

\* a variant whose legacy branch sets the version back to (0, 0)
RobotModeVersionLegacyReset(psize, version) ==
    CASE psize = 38 -> <<3, 0>>
      [] psize = 46 -> <<3, 2>>
      [] psize = 47 -> <<3, 5>>
      [] OTHER -> InitialVersion

\* self.version after the RobotModeData branch chosen by psize
RobotModeVersion(psize, version) ==
    CASE psize = 38 -> <<3, 0>>
      [] psize = 46 -> <<3, 2>>
      [] psize = 47 -> <<3, 5>>
      [] OTHER -> version

RobotModeFmt(psize) ==
    CASE psize = 38 -> FmtRMD38
      [] psize = 46 -> FmtRMD46
      [] psize = 47 -> FmtRMD47
      [] OTHER -> FmtRMDLegacy

RobotModeKeys(psize) ==
    CASE psize = 38 -> KeysRMD38
      [] psize = 46 -> KeysRMD46
      [] psize = 47 -> KeysRMD47
      [] OTHER -> KeysRMDLegacy

CartesianFmt(version) == IF VersionLess(version, <<3, 2>>) THEN FmtCart6 ELSE FmtCart12

CartesianKeys(version) == IF VersionLess(version, <<3, 2>>) THEN KeysCart6 ELSE KeysCart12

\* a variant that always reads the two digital words as 16-bit fields
MasterBoardFmtShort(version) == FmtMB16

MasterBoardFmt(version) == IF VersionAtLeast(version, <<3, 0>>) THEN FmtMB32 ELSE FmtMB16

\* the allData key, format and key names chosen by robotMessageType
MessageKnown(t) == t \in {0, 1, 2, 3, 5, 6, 7, 8}

MessageName(t) ==
    CASE t = 3 -> "VersionMessage"
      [] t = 6 -> "robotCommMessage"
      [] t = 1 -> "labelMessage"
      [] t = 2 -> "popupMessage"
      [] t = 0 -> "messageText"
      [] t = 8 -> "varMessage"
      [] t \in {5, 7} -> "keyMessage"

MessageFmt(t) ==
    CASE t = 3 -> FmtVersion
      [] t = 6 -> FmtComm
      [] t = 1 -> FmtLabel
      [] t = 2 -> FmtPopup
      [] t = 0 -> FmtText
      [] t = 8 -> FmtVar
      [] t = 7 -> FmtKey7
      [] t = 5 -> FmtKey5

MessageKeys(t) ==
    CASE t = 3 -> KeysVersion
      [] t = 6 -> KeysComm
      [] t = 1 -> KeysLabel
      [] t = 2 -> KeysPopup
      [] t = 0 -> KeysText
      [] t = 8 -> KeysVar
      [] t = 7 -> KeysKey7
      [] t = 5 -> KeysKey5

\* allData[name] = self._get_data(...), the loop going on with rest
StoreRecord(allData, name, r, rest, version) ==
    IF r.ok
    THEN [ok |-> TRUE, data |-> rest, version |-> version,
          allData |-> DictSet(allData, name, r.d)]
    ELSE [ok |-> FALSE, data |-> rest, version |-> version, allData |-> allData]

\* a packet that adds no record
\* a variant in which a packet that is not decoded ends parse with an error
RejectPacket(allData, rest, version) ==
    [ok |-> FALSE, data |-> rest, version |-> version, allData |-> allData]

SkipPacket(allData, rest, version) ==
    [ok |-> TRUE, data |-> rest, version |-> version, allData |-> allData]

\* a variant that hands the whole group back to the loop, header included
WholeGroup(pdata, data) == pdata \o data

\* "data = (pdata + data)[5:]": the first group tells about the whole
\* packet; it is put together again and goes back to the loop without
\* its five header bytes
GroupBody(pdata, data) == PyFrom(pdata \o data, 5)

ParseStep(data, version, allData) ==
    LET h == analyze_header(data) IN
    IF ~h.ok
    THEN [ok |-> FALSE, data |-> data, version |-> version, allData |-> allData]
    ELSE
      LET psize == h.psize
          ptype == h.ptype
          pdata == h.pdata
          rest  == h.rest
      IN
      CASE ptype = 16 ->
             StoreRecord(allData, "SecondaryClientData",
                         _get_data(pdata, FmtSCD, KeysSCD),
                         GroupBody(pdata, rest), version)
        [] ptype = 0 ->
             StoreRecord(allData, "RobotModeData",
                         _get_data(pdata, RobotModeFmt(psize), RobotModeKeys(psize)),
                         rest, RobotModeVersion(psize, version))
        [] ptype = 1 ->
             StoreRecord(allData, "JointData",
                         _get_data(pdata, FmtJoint, KeysJoint), rest, version)
        [] ptype = 4 ->
             StoreRecord(allData, "CartesianInfo",
                         _get_data(pdata, CartesianFmt(version), CartesianKeys(version)),
                         rest, version)
        [] ptype = 5 ->
             StoreRecord(allData, "LaserPointer(OBSOLETE)",
                         _get_data(pdata, FmtLaser, KeysLaser), rest, version)
        [] ptype = 3 ->
             StoreRecord(allData, "MasterBoardData",
                         _get_data(pdata, MasterBoardFmt(version), KeysMB),
                         rest, version)
        [] ptype = 2 ->
             StoreRecord(allData, "ToolData",
                         _get_data(pdata, FmtTool, KeysTool), rest, version)
        [] ptype = 9 -> SkipPacket(allData, rest, version)
        [] ptype = 8 /\ VersionAtLeast(version, <<3, 2>>) ->
             StoreRecord(allData, "AdditionalInfo",
                         _get_data(pdata, FmtAddInfo, KeysAddInfo), rest, version)
        [] ptype = 7 /\ VersionAtLeast(version, <<3, 2>>) ->
             StoreRecord(allData, "ForceModeData",
                         _get_data(pdata, FmtForce, KeysForce), rest, version)
        [] ptype = 20 ->
             LET tmp == _get_data(pdata, FmtMsgHead, KeysMsgHead) IN
             IF ~tmp.ok
             THEN [ok |-> FALSE, data |-> rest, version |-> version,
                   allData |-> allData]
             ELSE IF MessageKnown(tmp.d["robotMessageType"])
             THEN StoreRecord(allData, MessageName(tmp.d["robotMessageType"]),
                              _get_data(pdata, MessageFmt(tmp.d["robotMessageType"]),
                                        MessageKeys(tmp.d["robotMessageType"])),
                              rest, version)
             ELSE SkipPacket(allData, rest, version)
        [] OTHER -> SkipPacket(allData, rest, version)

\* the whole of parse(data): [ok, version, allData]
RECURSIVE ParseLoop(_, _, _)
ParseLoop(data, version, allData) ==
    IF Len(data) = 0
    THEN [ok |-> TRUE, version |-> version, allData |-> allData]
    ELSE
      LET s == ParseStep(data, version, allData) IN
      IF ~s.ok
      THEN [ok |-> FALSE, version |-> s.version, allData |-> s.allData]
      ELSE ParseLoop(s.data, s.version, s.allData)

parse(data, version) == ParseLoop(data, version, EmptyDict)

(***************************************************************************)
(* Wire images of packets, as the robot encodes them (big-endian), used as *)
(* the inputs of the model.  A packet is a 4-byte size, a type byte and a  *)
(* payload; a group is a type-16 packet whose payload is a run of packets. *)
(***************************************************************************)
U32(n) == <<n \div 16777216, (n \div 65536) % 256, (n \div 256) % 256, n % 256>>

Packet(ptype, payload) == U32(Len(payload) + 5) \o <<ptype>> \o payload

\* n payload bytes that all differ, starting at from
Ramp(from, n) == [k \in 1..n |-> (from + k) % 256]

BoolByte(b) == IF b THEN 1 ELSE 0

\* RobotModeData of declared size psize (>= 21): timestamp, the seven flags,
\* robotMode, then bytes that all differ up to the declared size
RobotModePacket(psize, connected, enabled, powered, estop, sstop, robotMode) ==
    Packet(0, Ramp(100, 8)
              \o <<BoolByte(connected), BoolByte(enabled), BoolByte(powered),
                   BoolByte(estop), BoolByte(sstop), 0, 0, robotMode>>
              \o Ramp(200, psize - 21))

\* a healthy robot: every flag as check_if_running wants it
HealthyRobotMode(psize, robotMode) ==
    RobotModePacket(psize, TRUE, TRUE, TRUE, FALSE, FALSE, robotMode)

\* MasterBoardData with the two digital words given as their bytes
\* (4 + 4 bytes for firmware >= 3.0, 2 + 2 before), then 55 more bytes
MasterBoardPacket(inBytes, outBytes) == Packet(3, inBytes \o outBytes \o Ramp(10, 55))

\* CartesianInfo carrying n doubles
CartesianPacket(n) == Packet(4, Ramp(30, 8 * n))

\* the internal packet the parser skips
InternalPacket == Packet(9, Ramp(0, 3))

Group(packets) == Packet(16, packets)

\* a group whose inner packet declares more bytes than the group holds
TruncatedGroup == Packet(16, U32(38) \o <<0>> \o Ramp(0, 4))

(***************************************************************************)
(* State.                                                                  *)
(*   version, dataqueue          ParserUtils.version, self._dataqueue      *)
(*   p_*                         ParserUtils.parse, stepped                *)
(*   s_*                         the byte stream of the scanner            *)
(*   the rest                    SecondaryMonitor and its threads          *)
(***************************************************************************)
VARIABLES
    version,        \* self._parser.version
    dataqueue,      \* self._dataqueue
    p_pc,           \* parse: "idle", "loop" (in while data), "raised"
    p_data,         \* parse: the local data still to parse
    p_allData,      \* parse: the local allData
    p_fed,          \* number of frames handed to parse so far
    p_last,         \* the packet of the latest loop iteration and the version before it
    p_entry,        \* self.version as it was when the latest call of parse began
    s_pc,           \* _get_data: "find" (calls find_first_packet), "recv"
    s_segs,         \* what the peer sends: frames and runs of garbage
    s_stream,       \* the bytes not yet received
    s_returned,     \* the packets _get_data has returned, in order
    wpc,            \* run: the worker's position, "dead" when run has ended
    cur,            \* run: the Program popped from the queue
    nrecv,          \* number of recv calls that have delivered data
    dict,           \* self._dict
    lastpacket_timestamp,
    running,        \* self.running
    clock,          \* the time, in ticks
    prog_queue,     \* self._prog_queue
    qlock,          \* owner of self._prog_queue_lock
    cond,           \* per caller: owner of its Program's condition
    wire,           \* the Programs written to the socket, in order
    enq,            \* the callers in the order of their append
    spc,            \* per caller: position in send_program
    sprog,          \* per caller: the bytes of its Program
    sarg,           \* per caller: the prog argument of its call
    constructed,    \* __init__: "no", "waiting", "ok", "failed"
    rpc,            \* the reading caller's position
    r_op,           \* the call in progress, or the last one
    r_tstamp,       \* wait: the local tstamp
    r_deadline,     \* wait: when the timeout elapses
    r_res,          \* the outcome of the last call
    r_stamped,      \* lastpacket_timestamp was written in the window of the call
    r_signalled,    \* and notifyAll was then called in the window
    heap,           \* the record objects in use, by identity
    dict_refs,      \* self._dict: packet-type name -> identity of its record
    held,           \* the mapping get_all_data last returned: name -> identity
    held_val,       \* what that mapping read when it was returned
    r_dead,         \* run had ended on a socket failure when the call began
    r_nb,           \* the nb argument of the call, 0 for a call without one
    w_since_raise,  \* "none"; "raised" after a ParsingException in run, until
                    \* the worker has signalled an update again: "recovered"
    trystop,        \* self._trystop
    socket,         \* self._socket: "open", "eof" (the peer has closed), "closed"
    cpc,            \* close: "idle", "join", "closing", "returned"
    rt_pc,          \* RealtimeMonitor.run: "new", "header", "size", "dead"
    rt_pkg,         \* _recv_bytes: the local pkg
    rt_stop_event,  \* self._stop_event
    rt_buffering,   \* self._buffering
    rt_buffer,      \* self._buffer
    rt_res,         \* what try_pop_buffer last returned
    rt_popped,      \* the samples try_pop_buffer has returned, in order
    rt_due          \* the packets the worker was done with while buffering was on

parseVars == <<p_pc, p_data, p_allData, p_fed, p_last, p_entry>>

scanVars == <<s_pc, s_segs, s_stream, s_returned>>

workerVars == <<wpc, cur, nrecv>>

sharedVars == <<dict, lastpacket_timestamp, running, clock>>

queueVars == <<prog_queue, qlock, cond, wire, enq>>

senderVars == <<spc, sprog, sarg>>

readerVars == <<constructed, rpc, r_op, r_tstamp, r_deadline, r_res, r_stamped, r_signalled>>

snapVars == <<heap, dict_refs, held, held_val>>

callVars == <<r_dead, r_nb>>

ghostVars == <<w_since_raise>>

closeVars == <<trystop, socket, cpc>>

rtVars == <<rt_pc, rt_pkg, rt_stop_event, rt_buffering, rt_buffer, rt_res, rt_popped, rt_due>>

monVars == <<rtVars, closeVars, ghostVars, callVars, snapVars, workerVars, sharedVars, queueVars, senderVars, readerVars>>

vars == <<version, dataqueue, parseVars, scanVars, monVars>>

\* framed: analyze_header accepted the packet; ok: the iteration did not raise
NoPacket ==
    [ptype |-> -1, psize |-> 0, framed |-> FALSE, ok |-> TRUE,
     before |-> InitialVersion]

ParseIdle ==
    /\ p_pc = "idle"
    /\ p_data = <<>>
    /\ p_allData = EmptyDict
    /\ p_fed = 0
    /\ p_last = NoPacket
    /\ p_entry = InitialVersion

ScanIdle ==
    /\ s_pc = "idle"
    /\ s_segs = <<>>
    /\ s_stream = <<>>
    /\ s_returned = <<>>

NumSenders == 2

Senders == 1..NumSenders

NoProgram == [id |-> 0, program |-> <<>>]

NoResult == [kind |-> "none", val |-> <<>>, absent |-> FALSE]

\* the SecondaryMonitor fields as __init__ sets them, no call made
MonitorFresh ==
    /\ cur = NoProgram
    /\ nrecv = 0
    /\ dict = EmptyDict
    /\ lastpacket_timestamp = 0
    /\ running = FALSE
    /\ clock = 0
    /\ prog_queue = <<>>
    /\ qlock = "free"
    /\ cond = [s \in Senders |-> "free"]
    /\ wire = <<>>
    /\ enq = <<>>
    /\ spc = [s \in Senders |-> "idle"]
    /\ sprog = [s \in Senders |-> <<>>]
    /\ sarg = [s \in Senders |-> <<>>]
    /\ constructed = "no"
    /\ rpc = "idle"
    /\ r_op = "none"
    /\ r_tstamp = 0
    /\ r_deadline = 0
    /\ r_res = NoResult
    /\ r_stamped = FALSE
    /\ r_signalled = FALSE
    /\ heap = EmptyDict
    /\ dict_refs = EmptyDict
    /\ held = EmptyDict
    /\ held_val = EmptyDict
    /\ r_dead = FALSE
    /\ r_nb = 0
    /\ w_since_raise = "none"
    /\ trystop = FALSE
    /\ socket = "open"
    /\ cpc = "idle"
    /\ rt_pc = "new"
    /\ rt_pkg = <<>>
    /\ rt_stop_event = TRUE
    /\ rt_buffering = FALSE
    /\ rt_buffer = <<>>
    /\ rt_res = "none yet"
    /\ rt_popped = <<>>
    /\ rt_due = <<>>

\* no SecondaryMonitor thread runs
MonIdle ==
    /\ wpc = "idle"
    /\ MonitorFresh

(***************************************************************************)
(* SpecParse: a ParserUtils object is handed frames one after the other;   *)
(* each step is one iteration of the loop of parse.                        *)
(***************************************************************************)
MaxFrames == 3

\* the frames handed to parse: groups as find_first_packet returns them
ParseInputs ==
    { Group(HealthyRobotMode(38, 7)),
      Group(HealthyRobotMode(46, 7)),
      Group(HealthyRobotMode(47, 7)),
      Group(HealthyRobotMode(29, 0)),
      Group(HealthyRobotMode(28, 0)),
      Group(HealthyRobotMode(47, 7) \o HealthyRobotMode(38, 7)),
      Group(HealthyRobotMode(46, 7) \o CartesianPacket(12)),
      Group(InternalPacket),
      TruncatedGroup }

\* parse(data) is called: allData = {} and the loop is entered
PCall ==
    /\ p_pc = "idle"
    /\ p_fed < MaxFrames
    /\ \E frame \in ParseInputs : p_data' = frame
    /\ p_allData' = EmptyDict
    /\ p_fed' = p_fed + 1
    /\ p_pc' = "loop"
    /\ p_entry' = version
    /\ UNCHANGED <<version, dataqueue, p_last, scanVars, monVars>>

\* one iteration of "while data:"
PIterate ==
    /\ p_pc = "loop"
    /\ Len(p_data) > 0
    /\ \E h \in {analyze_header(p_data)}, s \in {ParseStep(p_data, version, p_allData)} :
           /\ p_last' = [ptype |-> h.ptype, psize |-> h.psize, framed |-> h.ok,
                         ok |-> s.ok, before |-> version]
           /\ version' = s.version
           /\ p_allData' = s.allData
           /\ p_data' = s.data
           /\ p_pc' = IF s.ok THEN "loop" ELSE "raised"
    /\ UNCHANGED <<dataqueue, p_fed, p_entry, scanVars, monVars>>

\* "return allData"
PReturn ==
    /\ p_pc = "loop"
    /\ Len(p_data) = 0
    /\ p_pc' = "idle"
    /\ UNCHANGED <<version, dataqueue, p_data, p_allData, p_fed, p_last, p_entry, scanVars, monVars>>

\* ParsingException leaves parse; the ParserUtils object lives on
PRaise ==
    /\ p_pc = "raised"
    /\ p_pc' = "idle"
    /\ p_data' = <<>>
    /\ p_allData' = EmptyDict
    /\ UNCHANGED <<version, dataqueue, p_fed, p_last, p_entry, scanVars, monVars>>

InitParse ==
    /\ version = InitialVersion
    /\ dataqueue = <<>>
    /\ ParseIdle
    /\ ScanIdle
    /\ MonIdle

NextParse == PCall \/ PIterate \/ PReturn \/ PRaise

\* parse is straight-line Python run by one thread: an iteration, the
\* return and the raise each happen once they can
SpecParseRuns ==
    /\ InitParse
    /\ [][NextParse]_vars
    /\ WF_vars(PIterate) /\ WF_vars(PReturn) /\ WF_vars(PRaise)

SpecParse == InitParse /\ [][NextParse]_vars

(***************************************************************************)
(* parse fed with groups that carry the packet types whose fields are      *)
(* read back: MasterBoardData with chosen digital words.                   *)
(***************************************************************************)
\* struct.pack("!i", v): the four bytes of v in two's complement
pack_i(v) ==
    <<(v \div 16777216) % 256, (v \div 65536) % 256, (v \div 256) % 256, v % 256>>

\* the least 32-bit value
MinInt32 == -2147483647 - 1

\* pairs of values for digitalInputBits and digitalOutputBits
DigitalPairs ==
    { <<1, -33>>, <<65536, 5>>, <<MinInt32, 2147483647>> }

MasterBoardOf(pair) == MasterBoardPacket(pack_i(pair[1]), pack_i(pair[2]))

\* a type-20 packet with robotMessageType 2: timestamp, source, the type,
\* warning, error, titleSize, the title and the text
PopupPacket(c) ==
    Packet(20, Ramp(60, 8) \o <<1, 2>>
               \o <<BoolByte(c.warning), BoolByte(c.error), Len(c.title)>>
               \o c.title \o c.text)

\* titles and texts of several lengths, the empty ones included
\* a popup whose titleSize says 5 with two bytes left in the packet
ShortTitlePopup == Packet(20, Ramp(60, 8) \o <<1, 2>> \o <<1, 0, 5>> \o <<84, 105>>)

PopupCases ==
    { [warning |-> TRUE,  error |-> FALSE, title |-> <<84, 105>>,  text |-> <<111, 107, 33>>],
      [warning |-> FALSE, error |-> TRUE,  title |-> <<>>,         text |-> <<1>>],
      [warning |-> TRUE,  error |-> TRUE,  title |-> <<7, 7, 7>>,  text |-> <<>>] }

\* a packet of a type parse has no branch for
UnknownPacket == Packet(99, Ramp(0, 3))

\* a type-20 packet: timestamp, source, robotMessageType and a body
MessagePacket(robotMessageType) ==
    Packet(20, Ramp(60, 8) \o <<1, robotMessageType>> \o <<1, 2, 3>>)

\* the packets parse passes over: type 9, an unknown type, and messages
\* whose robotMessageType (4, and -1 as the byte 255) has no branch
SkippedPackets == {InternalPacket, UnknownPacket, MessagePacket(4), MessagePacket(255)}

FieldInputs ==
    { Group(HealthyRobotMode(38, 7) \o MasterBoardOf(pair)) : pair \in DigitalPairs }
    \cup { Group(MasterBoardOf(pair)) : pair \in DigitalPairs }
    \cup { Group(PopupPacket(c)) : c \in PopupCases }
    \cup { TruncatedGroup }
      \cup { Group(HealthyRobotMode(38, 7) \o x \o MasterBoardOf(<<1, -33>>))
              : x \in SkippedPackets }
      \cup { Group(x) : x \in SkippedPackets }
      \cup { Group(HealthyRobotMode(psize, 7)) : psize \in {38, 47} }
      \cup { Group(CartesianPacket(n)) : n \in {6, 12} }
      \cup { Group(HealthyRobotMode(46, 7) \o CartesianPacket(6)) }
      \cup { Group(ShortTitlePopup) }

\* parse(data) is called on one of these groups
PCallFields ==
    /\ p_pc = "idle"
    /\ p_fed < MaxFrames
    /\ \E frame \in FieldInputs : p_data' = frame
    /\ p_allData' = EmptyDict
    /\ p_fed' = p_fed + 1
    /\ p_pc' = "loop"
    /\ p_entry' = version
    /\ UNCHANGED <<version, dataqueue, p_last, scanVars, monVars>>

NextFields == PCallFields \/ PIterate \/ PReturn \/ PRaise

SpecFields == InitParse /\ [][NextFields]_vars


(***************************************************************************)
(* SpecScan: SecondaryMonitor._get_data called again and again on a socket *)
(* whose peer sends well-formed type-16 frames and runs of garbage.  recv  *)
(* returns between one and MaxChunk of the bytes still to come.            *)
(***************************************************************************)
MaxSegs == 3

MaxChunk == 3

\* well-formed type-16 frames of declared size 5, 6 and 10
GoodFrames == {Packet(16, <<>>), Packet(16, <<7>>), Packet(16, <<0, 0, 0, 5, 16>>)}

\* runs of garbage: none holds a whole frame; the last three read as type-16
\* headers that declare 6 bytes, 2001 bytes and -1 bytes
GarbageRuns ==
    {<<255>>, <<0, 0>>, <<0, 16, 255>>, <<0, 0, 0, 6, 16>>, <<0, 0, 7, 209, 16>>,
     <<255, 255, 255, 255, 16>>}

Segments ==
    [kind : {"frame"}, bytes : GoodFrames] \cup [kind : {"garbage"}, bytes : GarbageRuns]

\* frames with at most one run of garbage before, between and after them
SegSeqs ==
    { segs \in UNION {[1..n -> Segments] : n \in 0..MaxSegs} :
        \A k \in 1..(Len(segs) - 1) :
            segs[k].kind = "frame" \/ segs[k + 1].kind = "frame" }

RECURSIVE Concat(_)
Concat(segs) == IF segs = <<>> THEN <<>> ELSE segs[1].bytes \o Concat(Tail(segs))

IsFrameSeg(seg) == seg.kind = "frame"

\* the frames of the stream, in stream order
RECURSIVE FramesOf(_)
FramesOf(segs) ==
    IF segs = <<>> THEN <<>>
    ELSE (IF IsFrameSeg(segs[1]) THEN <<segs[1].bytes>> ELSE <<>>) \o FramesOf(Tail(segs))

\* the garbage that follows the last frame
RECURSIVE TrailingGarbage(_)
TrailingGarbage(segs) ==
    IF segs = <<>> \/ IsFrameSeg(segs[Len(segs)]) THEN <<>>
    ELSE TrailingGarbage(SubSeq(segs, 1, Len(segs) - 1)) \o segs[Len(segs)].bytes

\* the positions (1-based) of the garbage bytes in the stream
GarbagePositions(segs) ==
    UNION { { Len(Concat(SubSeq(segs, 1, k - 1))) + i : i \in 1..Len(segs[k].bytes) }
            : k \in {k \in 1..Len(segs) : ~IsFrameSeg(segs[k])} }

\* no five bytes that start at a garbage byte read as a frame header
GarbageNeverLooksLikeHeader(segs) ==
    LET st == Concat(segs) IN
    \A p \in GarbagePositions(segs) :
        p + 4 <= Len(st) =>
            LET h == get_header(SubSeq(st, p, p + 4))
            IN  ~(h.packet_size >= 5 /\ h.packet_size <= 2000 /\ h.packet_type = 16)

IsPrefix(a, b) == Len(a) <= Len(b) /\ a = SubSeq(b, 1, Len(a))

InitScan ==
    /\ version = InitialVersion
    /\ dataqueue = <<>>
    /\ ParseIdle
    /\ MonIdle
    /\ s_pc = "find"
    /\ s_segs \in SegSeqs
    /\ s_stream = Concat(s_segs)
    /\ s_returned = <<>>

\* ans = find_first_packet(self._dataqueue[:]) found a packet: return it
SFindPacket ==
    /\ s_pc = "find"
    /\ LET ans == find_first_packet(dataqueue)
       IN  /\ ans.found
           /\ dataqueue' = ans.rest
           /\ s_returned' = Append(s_returned, ans.frame)
    /\ UNCHANGED <<version, parseVars, s_pc, s_segs, s_stream, monVars>>

\* ans is None: go on to recv
SFindNone ==
    /\ s_pc = "find"
    /\ ~find_first_packet(dataqueue).found
    /\ s_pc' = "recv"
    /\ UNCHANGED <<version, dataqueue, parseVars, s_segs, s_stream, s_returned, monVars>>

\* tmp = self._socket.recv(1024); self._dataqueue += tmp
SRecv ==
    /\ s_pc = "recv"
    /\ Len(s_stream) > 0
    /\ \E n \in 1..MaxChunk :
          /\ n <= Len(s_stream)
          /\ dataqueue' = dataqueue \o SubSeq(s_stream, 1, n)
          /\ s_stream' = SubSeq(s_stream, n + 1, Len(s_stream))
    /\ s_pc' = "find"
    /\ UNCHANGED <<version, parseVars, s_segs, s_returned, monVars>>

NextScan == SFindPacket \/ SFindNone \/ SRecv

SpecScan == InitScan /\ [][NextScan]_vars

\* every byte was received and _get_data is blocked in recv
ScanEnded == s_pc = "recv" /\ s_stream = <<>>

(***************************************************************************)
(* Properties of the scanner (checked under SpecScan).                     *)
(***************************************************************************)
\* C6, as claimed: for every stream of well-formed frames and arbitrary
\* garbage, the calls of find_first_packet return every well-formed frame,
\* in stream order, and nothing else.
C6_EveryFrameReturned == ScanEnded => s_returned = FramesOf(s_segs)

\* C6, amended: when no five bytes starting at a garbage byte read as a
\* header (size in 5..2000, type 16), what is returned is at every moment a
\* prefix of the stream's frames, and once every byte is received it is all
\* of them; only the garbage after the last frame is still in the buffer.
C6_FramesReturnedWhenGarbageIsNoHeader ==
    GarbageNeverLooksLikeHeader(s_segs) =>
        /\ IsPrefix(s_returned, FramesOf(s_segs))
        /\ ScanEnded =>
              /\ s_returned = FramesOf(s_segs)
              /\ dataqueue = TrailingGarbage(s_segs)

\* garbage, then two frames, all received and both frames returned
C6_Witness ==
    /\ ScanEnded
    /\ GarbageNeverLooksLikeHeader(s_segs)
    /\ Len(s_segs) >= 3
    /\ ~IsFrameSeg(s_segs[1])
    /\ Len(s_returned) = 2
    /\ s_returned = FramesOf(s_segs)

(***************************************************************************)
(* Properties of parse (checked under SpecParse).                          *)
(***************************************************************************)
KnownRobotModeSizes == {38, 46, 47}

KeySet(key_names) == {key_names[k] : k \in 1..Len(key_names)}

C8_VersionBySize ==
    (p_last.framed /\ p_last.ptype = 0) =>
        version = CASE p_last.psize = 38 -> <<3, 0>>
                    [] p_last.psize = 46 -> <<3, 2>>
                    [] p_last.psize = 47 -> <<3, 5>>
                    [] OTHER -> p_last.before

\* a size-46 packet decoded while the version was (3,5), and a legacy one kept
C8_Witness ==
    /\ p_last.ptype = 0
    /\ p_last.ok
    /\ \/ p_last.psize = 46 /\ p_last.before = <<3, 5>> /\ version = <<3, 2>>
       \/ p_last.psize = 29 /\ p_last.before = <<3, 5>> /\ version = <<3, 5>>

\* C9: the RobotModeData record decoded for size 38, 46 or 47 holds every
\* key name of that size's layout: 14, 15 and 16 fields.
C9_RobotModeFieldCount ==
    ( /\ "RobotModeData" \in DOMAIN p_allData
      /\ p_last.ptype = 0
      /\ p_last.ok
      /\ p_last.psize \in KnownRobotModeSizes ) =>
        /\ DOMAIN p_allData["RobotModeData"] = KeySet(RobotModeKeys(p_last.psize))
        /\ Cardinality(DOMAIN p_allData["RobotModeData"]) =
               CASE p_last.psize = 38 -> 14
                 [] p_last.psize = 46 -> 15
                 [] p_last.psize = 47 -> 16

(***************************************************************************)
(* SecondaryMonitor.  The state is the one __init__ leaves when it   *)
(* has started the worker thread (self.start()) and is about to call       *)
(* self.wait().  Threads: the worker (run), NumSenders callers of          *)
(* send_program, and one caller that constructs the monitor and then calls *)
(* wait, get_all_data and the typed getters.                               *)
(*                                                                         *)
(* _prog_queue_lock and each Program's condition are held across other     *)
(* blocking calls and have an owner in the state.  _dictLock and           *)
(* _dataEvent guard sections that never block, which are single steps.     *)
(* Time is a clock that the Tick step advances; every time.time() the      *)
(* worker reads is later than the one before.                              *)
(***************************************************************************)
MaxRecv == 2

MaxClock == 2

\* wait(timeout=1.0), in ticks of the clock
TimeoutTicks == 1

\* the arguments of send_program, as character sequences
Programs == {<<"a">>, <<"b", " ", "\n">>}

\* what recv delivers: whole groups, as the robot sends them
MonitorInputs ==
    { Group(HealthyRobotMode(38, 7)),
      Group(HealthyRobotMode(47, 7)
            \o MasterBoardPacket(<<0, 0, 0, 1>>, <<255, 255, 255, 223>>)),
      Group(InternalPacket),
      TruncatedGroup }

\* the groups that hold RobotModeData and decode
StatusFrames ==
    { Group(HealthyRobotMode(38, 7)),
      Group(HealthyRobotMode(47, 7)
            \o MasterBoardPacket(<<0, 0, 0, 1>>, <<255, 255, 255, 223>>)) }

\* what recv delivers to a monitor that is only read: also a segment that
\* carries a truncated group and a whole one behind it
StatusInputs ==
    MonitorInputs \cup {TruncatedGroup \o Group(HealthyRobotMode(38, 7))}
\* RobotModeData as firmware before 3.0 sends it (29 bytes) and as 3.0
\* sends it, in the mode the other firmware reports when running, and from
\* a robot in emergency stop
ModeInputs ==
    { Group(HealthyRobotMode(29, 0)),
      Group(HealthyRobotMode(29, 7)),
      Group(HealthyRobotMode(38, 0)),
      Group(RobotModePacket(38, TRUE, TRUE, TRUE, TRUE, FALSE, 7)) }


\* prog.strip() returns a new string, which is dropped; Program(prog + b"\n")
ProgramBytes(prog) == prog \o <<"\n">>

InitMonitor ==
    /\ version = InitialVersion
    /\ dataqueue = <<>>
    /\ ParseIdle
    /\ ScanIdle
    /\ wpc = "loop"
    /\ MonitorFresh

(***************************************************************************)
(* send_program, for caller s.                                             *)
(***************************************************************************)
\* data = Program(prog + b"\n"); with data.condition:
\* a variant that appends without having entered data.condition
ConditionNotEntered == "free"

\* with data.condition: the caller holds the command's condition
ConditionEntered == "sender"

\* data = Program(prog + b"\n"); with data.condition:
SCall(s) ==
    /\ constructed = "ok"
    /\ spc[s] = "idle"
    /\ \E prog \in Programs :
           /\ sarg' = [sarg EXCEPT ![s] = prog]
           /\ sprog' = [sprog EXCEPT ![s] = ProgramBytes(prog)]
    /\ cond' = [cond EXCEPT ![s] = ConditionEntered]
    /\ spc' = [spc EXCEPT ![s] = "lock"]
    /\ UNCHANGED <<version, dataqueue, parseVars, scanVars, rtVars, closeVars, ghostVars, callVars, snapVars, workerVars, sharedVars,
                   prog_queue, qlock, wire, enq, readerVars>>

\* with self._prog_queue_lock:
SLockQueue(s) ==
    /\ spc[s] = "lock"
    /\ qlock = "free"
    /\ qlock' = "sender"
    /\ spc' = [spc EXCEPT ![s] = "append"]
    /\ UNCHANGED <<version, dataqueue, parseVars, scanVars, rtVars, closeVars, ghostVars, callVars, snapVars, workerVars, sharedVars,
                   prog_queue, cond, wire, enq, sprog, sarg, readerVars>>

\* self._prog_queue.append(data), and the lock is released
SAppend(s) ==
    /\ spc[s] = "append"
    /\ prog_queue' = Append(prog_queue, [id |-> s, program |-> sprog[s]])
    /\ enq' = Append(enq, s)
    /\ qlock' = "free"
    /\ spc' = [spc EXCEPT ![s] = "wait"]
    /\ UNCHANGED <<version, dataqueue, parseVars, scanVars, rtVars, closeVars, ghostVars, callVars, snapVars, workerVars, sharedVars,
                   cond, wire, sprog, sarg, readerVars>>

\* a variant that does not block in data.condition.wait()
ReturnWithoutWaiting == "returned"

\* data.condition.wait(): the caller is blocked until it is notified
BlockedInConditionWait == "waiting"

\* data.condition.wait() releases the condition and blocks
SWait(s) ==
    /\ spc[s] = "wait"
    /\ cond' = [cond EXCEPT ![s] = "free"]
    /\ spc' = [spc EXCEPT ![s] = BlockedInConditionWait]
    /\ UNCHANGED <<version, dataqueue, parseVars, scanVars, rtVars, closeVars, ghostVars, callVars, snapVars, workerVars, sharedVars,
                   prog_queue, qlock, wire, enq, sprog, sarg, readerVars>>

\* notified: wait() takes the condition again, the with block ends, return
SReturn(s) ==
    /\ spc[s] = "notified"
    /\ cond[s] = "free"
    /\ spc' = [spc EXCEPT ![s] = "returned"]
    /\ UNCHANGED <<version, dataqueue, parseVars, scanVars, rtVars, closeVars, ghostVars, callVars, snapVars, workerVars, sharedVars,
                   prog_queue, qlock, cond, wire, enq, sprog, sarg, readerVars>>

(***************************************************************************)
(* run, the worker loop.                                                   *)
(***************************************************************************)
\* the calls that start with self.wait()
WaitingCalls == {"__init__", "wait", "get_all_data(wait=True)"}

\* the window of a call that starts with wait(): from its first statement
\* to its end and, when it ended early, on to its deadline
InWindow == r_op \in WaitingCalls /\ (rpc # "idle" \/ clock < r_deadline)

\* a variant that takes the newest command: list.pop()
popLast(q) == [item |-> q[Len(q)], rest |-> SubSeq(q, 1, Len(q) - 1)]

\* a variant that leaves the command in the list: q[0]
peekFirst(q) == [item |-> Head(q), rest |-> q]

\* self._prog_queue.pop(0)
popFirst(q) == [item |-> Head(q), rest |-> Tail(q)]

\* with self._prog_queue_lock: len(self._prog_queue) > 0 is false
WPollEmpty ==
    /\ wpc = "loop"
    /\ ~trystop
    /\ qlock = "free"
    /\ prog_queue = <<>>
    /\ wpc' = "getdata"
    /\ UNCHANGED <<version, dataqueue, parseVars, scanVars, rtVars, closeVars, ghostVars, callVars, snapVars, cur, nrecv,
                   sharedVars, queueVars, senderVars, readerVars>>

\* with self._prog_queue_lock: data = self._prog_queue.pop(0)
WPop ==
    /\ wpc = "loop"
    /\ ~trystop
    /\ qlock = "free"
    /\ prog_queue # <<>>
    /\ qlock' = "worker"
    /\ cur' = popFirst(prog_queue).item
    /\ prog_queue' = popFirst(prog_queue).rest
    /\ wpc' = "send"
    /\ UNCHANGED <<version, dataqueue, parseVars, scanVars, rtVars, closeVars, ghostVars, callVars, snapVars, nrecv,
                   sharedVars, cond, wire, enq, senderVars, readerVars>>

\* self._socket.send(data.program)
WSend ==
    /\ wpc = "send"
    /\ wire' = Append(wire, cur)
    /\ wpc' = "notify"
    /\ UNCHANGED <<version, dataqueue, parseVars, scanVars, rtVars, closeVars, ghostVars, callVars, snapVars, cur, nrecv,
                   sharedVars, prog_queue, qlock, cond, enq, senderVars, readerVars>>

\* self._socket.send raises: the with block releases the lock, run ends
WSendFails ==
    /\ wpc = "send"
    /\ qlock' = "free"
    /\ wpc' = "dead"
    /\ UNCHANGED <<version, dataqueue, parseVars, scanVars, rtVars, closeVars, ghostVars, callVars, snapVars, cur, nrecv,
                   sharedVars, prog_queue, cond, wire, enq, senderVars, readerVars>>

\* with data.condition: data.condition.notify_all(); both locks released
WNotify ==
    /\ wpc = "notify"
    /\ cond[cur.id] = "free"
    /\ spc' = [spc EXCEPT ![cur.id] = IF @ = "waiting" THEN "notified" ELSE @]
    /\ qlock' = "free"
    /\ cur' = NoProgram
    /\ wpc' = "getdata"
    /\ UNCHANGED <<version, dataqueue, parseVars, scanVars, rtVars, closeVars, ghostVars, callVars, snapVars, nrecv,
                   sharedVars, prog_queue, cond, wire, enq, sprog, sarg, readerVars>>

\* _get_data: find_first_packet finds a packet in self._dataqueue, which
\* is handed to self._parser.parse
WGetData ==
    /\ wpc = "getdata"
    /\ find_first_packet(dataqueue).found
    /\ dataqueue' = find_first_packet(dataqueue).rest
    /\ p_data' = find_first_packet(dataqueue).frame
    /\ p_allData' = EmptyDict
    /\ p_pc' = "loop"
    /\ p_fed' = p_fed + 1
    /\ wpc' = "parse"
    /\ p_entry' = version
    /\ UNCHANGED <<version, p_last, scanVars, rtVars, closeVars, ghostVars, callVars, snapVars, cur, nrecv,
                   sharedVars, queueVars, senderVars, readerVars>>

\* _get_data: find_first_packet returns None, the loop goes on to recv
WFindNone ==
    /\ wpc = "getdata"
    /\ ~find_first_packet(dataqueue).found
    /\ wpc' = "recv"
    /\ UNCHANGED <<version, dataqueue, parseVars, scanVars, rtVars, closeVars, ghostVars, callVars, snapVars, cur, nrecv,
                   sharedVars, queueVars, senderVars, readerVars>>

\* _get_data: self._dataqueue += self._socket.recv(1024), bytes arrived
Recv(inputs) ==
    /\ wpc = "recv"
    /\ socket = "open"
    /\ nrecv < MaxRecv
    /\ \E tmp \in inputs : dataqueue' = dataqueue \o tmp
    /\ nrecv' = nrecv + 1
    /\ wpc' = "getdata"
    /\ UNCHANGED <<version, parseVars, scanVars, rtVars, closeVars, ghostVars, callVars, snapVars, cur,
                   sharedVars, queueVars, senderVars, readerVars>>

WRecv == Recv(MonitorInputs)

\* the same, the peer also sending two groups in one segment
WRecvStatus == Recv(StatusInputs)

\* the same, the peer being a robot of either firmware in some mode
WRecvModes == Recv(ModeInputs)

\* _get_data: recv raises (the socket has timeout=1), run ends
WRecvFails ==
    /\ wpc = "recv"
    /\ socket = "open"
    /\ wpc' = "dead"
    /\ UNCHANGED <<version, dataqueue, parseVars, scanVars, rtVars, closeVars, ghostVars, callVars, snapVars, cur, nrecv,
                   sharedVars, queueVars, senderVars, readerVars>>
\* _get_data: the peer has closed the connection, recv returns b"" at once
\* and the while True loop goes round
WRecvEof ==
    /\ wpc = "recv"
    /\ socket = "eof"
    /\ wpc' = "getdata"
    /\ UNCHANGED <<version, dataqueue, parseVars, scanVars, rtVars, closeVars, ghostVars, callVars, snapVars, cur, nrecv,
                   sharedVars, queueVars, senderVars, readerVars>>

\* while not self._trystop: the test fails, run returns
WExit ==
    /\ wpc = "loop"
    /\ trystop
    /\ wpc' = "exited"
    /\ UNCHANGED <<version, dataqueue, parseVars, scanVars, rtVars, closeVars, ghostVars, callVars, snapVars, cur, nrecv,
                   sharedVars, queueVars, senderVars, readerVars>>

(***************************************************************************)
(* close, and the peer.                                                    *)
(***************************************************************************)
\* the peer closes the connection
PeerCloses ==
    /\ socket = "open"
    /\ socket' = "eof"
    /\ UNCHANGED <<version, dataqueue, parseVars, scanVars, rtVars, trystop, cpc, ghostVars, callVars, snapVars,
                   workerVars, sharedVars, queueVars, senderVars, readerVars>>

\* self._trystop = True
CClose ==
    /\ constructed = "ok"
    /\ cpc = "idle"
    /\ trystop' = TRUE
    /\ cpc' = "join"
    /\ UNCHANGED <<version, dataqueue, parseVars, scanVars, rtVars, socket, ghostVars, callVars, snapVars,
                   workerVars, sharedVars, queueVars, senderVars, readerVars>>

\* a variant of join that returns while run is still going
JoinWithoutWaiting(w) == TRUE

\* Thread.join returns once run has returned or has ended on an exception
WorkerJoined(w) == w \in {"exited", "dead"}

\* self.join()
CJoin ==
    /\ cpc = "join"
    /\ WorkerJoined(wpc)
    /\ cpc' = "closing"
    /\ UNCHANGED <<version, dataqueue, parseVars, scanVars, rtVars, trystop, socket, ghostVars, callVars, snapVars,
                   workerVars, sharedVars, queueVars, senderVars, readerVars>>

\* with self._prog_queue_lock: self._socket.close()
CCloseSocket ==
    /\ cpc = "closing"
    /\ qlock = "free"
    /\ socket' = "closed"
    /\ cpc' = "returned"
    /\ UNCHANGED <<version, dataqueue, parseVars, scanVars, rtVars, trystop, ghostVars, callVars, snapVars,
                   workerVars, sharedVars, queueVars, senderVars, readerVars>>


\* a variant in which parse writes into the record already stored under
\* the name
ReuseRecordId(g, name, refs) == IF name \in DOMAIN refs THEN refs[name] ELSE <<g, name>>

\* _get_data builds a new dict for every record: the record that the
\* g-th call of parse stores under name is a new object
FreshRecordId(g, name, refs) == <<g, name>>

Range(f) == {f[x] : x \in DOMAIN f}

\* tmpdict: the names of allData, each with the identity of its record
NewRefs(g, allData, refs) == [n \in DOMAIN allData |-> FreshRecordId(g, n, refs)]

\* the objects after the records of allData have been written
Written(h, refs, allData) ==
    [id \in DOMAIN h \cup Range(refs) |->
        IF id \in Range(refs)
        THEN allData[CHOOSE n \in DOMAIN refs : refs[n] = id]
        ELSE h[id]]

\* objects nothing refers to are gone
Collect(h, live) == [id \in DOMAIN h \cap live |-> h[id]]

\* what a mapping of names to record identities reads now
Deref(h, refs) == [n \in DOMAIN refs |-> h[refs[n]]]

\* parse runs its loop, one packet of the group at a time
WParseStep ==
    /\ wpc = "parse"
    /\ PIterate

\* a variant that updates the stored snapshot with the batch, key by key
MergedSnapshot(old, tmpdict) ==
    [k \in DOMAIN old \cup DOMAIN tmpdict |->
        IF k \in DOMAIN tmpdict THEN tmpdict[k] ELSE old[k]]

\* self._dict = tmpdict: the name is bound to the dictionary parse built
StoredSnapshot(old, tmpdict) == tmpdict

\* tmpdict = self._parser.parse(data) returns; self._dict = tmpdict; the
\* RobotModeData test
WParseReturn ==
    /\ wpc = "parse"
    /\ p_pc = "loop"
    /\ Len(p_data) = 0
    /\ dict' = StoredSnapshot(dict, p_allData)
    /\ dict_refs' = NewRefs(p_fed, p_allData, dict_refs)
    /\ heap' = Collect(Written(heap, NewRefs(p_fed, p_allData, dict_refs), p_allData),
                       Range(NewRefs(p_fed, p_allData, dict_refs)) \cup Range(held))
    /\ UNCHANGED <<held, held_val>>
    /\ wpc' = IF "RobotModeData" \in DOMAIN p_allData THEN "stamp" ELSE "loop"
    /\ p_pc' = "idle"
    /\ p_allData' = EmptyDict
    /\ UNCHANGED <<version, dataqueue, p_data, p_fed, p_last, p_entry, scanVars, rtVars, closeVars, ghostVars, callVars, cur, nrecv,
                   lastpacket_timestamp, running, clock,
                   queueVars, senderVars, readerVars>>

\* a variant without the except clause: the exception ends run
ParsingExceptionEndsRun == "dead"

\* a variant in which the except clause falls through to the notifyAll
ParsingExceptionSignals == "signal"

\* except ParsingException: ... continue
AfterParsingException == "loop"

\* except ParsingException: self._dict is left alone, continue
WParseRaise ==
    /\ wpc = "parse"
    /\ p_pc = "raised"
    /\ wpc' = AfterParsingException
    /\ w_since_raise' = "raised"
    /\ p_pc' = "idle"
    /\ p_data' = <<>>
    /\ p_allData' = EmptyDict
    /\ UNCHANGED <<version, dataqueue, p_fed, p_last, p_entry, scanVars, rtVars, closeVars, callVars, snapVars, cur, nrecv,
                   sharedVars, queueVars, senderVars, readerVars>>

\* self.lastpacket_timestamp = time.time().  The readings of time.time()
\* are kept as their rank: each is later than the one before, and wait()
\* compares them for equality only.
WStamp ==
    /\ wpc = "stamp"
    /\ lastpacket_timestamp' = lastpacket_timestamp + 1
    /\ r_stamped' = (r_stamped \/ InWindow)
    /\ wpc' = "running"
    /\ UNCHANGED <<version, dataqueue, parseVars, scanVars, rtVars, closeVars, ghostVars, callVars, snapVars, cur, nrecv,
                   dict, running, clock, queueVars, senderVars,
                   constructed, rpc, r_op, r_tstamp, r_deadline, r_res, r_signalled>>

check_if_running(d, rmode) ==
    /\ d["RobotModeData"]["robotMode"] = rmode
    /\ d["RobotModeData"]["isRealRobotEnabled"] = TRUE
    /\ d["RobotModeData"]["isEmergencyStopped"] = FALSE
    /\ d["RobotModeData"]["isSecurityStopped"] = FALSE
    /\ d["RobotModeData"]["isRobotConnected"] = TRUE
    /\ d["RobotModeData"]["isPowerOnRobot"] = TRUE

\* a variant that expects the mode of firmware 3.0 whatever the version
AlwaysSeven(v) == 7

\* rmode = 0; if self._parser.version >= (3, 0): rmode = 7
ExpectedRobotMode(v) == IF VersionAtLeast(v, <<3, 0>>) THEN 7 ELSE 0

\* self.running = True / False after self.check_if_running(rmode)
WRunning ==
    /\ wpc = "running"
    /\ running' = check_if_running(dict, ExpectedRobotMode(version))
    /\ wpc' = "signal"
    /\ UNCHANGED <<version, dataqueue, parseVars, scanVars, rtVars, closeVars, ghostVars, callVars, snapVars, cur, nrecv,
                   dict, lastpacket_timestamp, clock,
                   queueVars, senderVars, readerVars>>

\* with self._dataEvent: self._dataEvent.notifyAll()
WNotifyAll ==
    /\ wpc = "signal"
    /\ rpc' = IF rpc = "waiting" THEN "woken" ELSE rpc
    /\ r_signalled' = (r_signalled \/ (r_stamped /\ InWindow))
    /\ wpc' = "loop"
    /\ w_since_raise' = IF w_since_raise = "raised" THEN "recovered" ELSE w_since_raise
    /\ UNCHANGED <<version, dataqueue, parseVars, scanVars, rtVars, closeVars, callVars, snapVars, cur, nrecv,
                   sharedVars, queueVars, senderVars,
                   constructed, r_op, r_tstamp, r_deadline, r_res, r_stamped>>

(***************************************************************************)
(* The caller: the constructor's wait(), then wait(), get_all_data and the *)
(* typed getters.  A result is [kind, val, absent]: kind is "returned"     *)
(* (wait came back), "value", "None", "Timeout" or "KeyError"; absent says *)
(* that the packet type the getter reads was not in self._dict.            *)
(***************************************************************************)
Returned == [kind |-> "returned", val |-> <<>>, absent |-> FALSE]

Timeout == [kind |-> "Timeout", val |-> <<>>, absent |-> FALSE]

Value(v) == [kind |-> "value", val |-> v, absent |-> FALSE]

None == [kind |-> "None", val |-> <<>>, absent |-> TRUE]

KeyError(absent) == [kind |-> "KeyError", val |-> <<>>, absent |-> absent]

\* output & (1 << nb), as 1 or 0, for a two's complement output
\* a variant that tests the bit in the magnitude of output
BitOfMagnitude(output, nb) == ((IF output < 0 THEN -output ELSE output) \div (2 ^ nb)) % 2

BitOf(output, nb) == (output \div (2 ^ nb)) % 2

\* "analogInput" + str(nb)
AnalogKey(nb) ==
    CASE nb = 0 -> "analogInput0"
      [] nb = 1 -> "analogInput1"
      [] nb = 2 -> "analogInput2"
      [] nb = 3 -> "analogInput3"
      [] OTHER -> "analogInput(nb)"

\* if name in self._dict: return self._dict[name] else: return None
RecordOrNone(d, name) == IF name \in DOMAIN d THEN Value(d[name]) ELSE None

\* self._dict["MasterBoardData"][key]
MasterBoardField(d, key) ==
    IF "MasterBoardData" \notin DOMAIN d THEN KeyError(TRUE)
    ELSE IF key \notin DOMAIN d["MasterBoardData"] THEN KeyError(FALSE)
    ELSE Value(d["MasterBoardData"][key])

\* mask = 1 << nb; return 1 if output & mask else 0
MasterBoardBit(d, key, nb) ==
    LET output == MasterBoardField(d, key) IN
    IF output.kind = "value" THEN Value(BitOf(output.val, nb)) ELSE output

get_cartesian_info(d) == RecordOrNone(d, "CartesianInfo")

get_joint_data(d) == RecordOrNone(d, "JointData")

\* self._dict.copy(): a new mapping, the records themselves are shared
get_all_data(d) == Value(d)

get_digital_out(d, nb) == MasterBoardBit(d, "digitalOutputBits", nb)

get_digital_out_bits(d) == MasterBoardField(d, "digitalOutputBits")

get_digital_in(d, nb) == MasterBoardBit(d, "digitalInputBits", nb)

get_digital_in_bits(d) == MasterBoardField(d, "digitalInputBits")

get_analog_in(d, nb) == MasterBoardField(d, AnalogKey(nb))

get_analog_inputs(d) ==
    LET a0 == MasterBoardField(d, "analogInput0")
        a1 == MasterBoardField(d, "analogInput1")
    IN  IF a0.kind # "value" THEN a0
        ELSE IF a1.kind # "value" THEN a1
        ELSE Value(<<a0.val, a1.val>>)

\* return self._dict["RobotModeData"]["isProgramRunning"]
is_program_running(d) ==
    IF "RobotModeData" \notin DOMAIN d THEN KeyError(TRUE)
    ELSE Value(d["RobotModeData"]["isProgramRunning"])

TypedGetters ==
    {"get_cartesian_info", "get_joint_data", "get_digital_out",
     "get_digital_out_bits", "get_digital_in", "get_digital_in_bits",
     "get_analog_in", "get_analog_inputs"}

\* the channel numbers passed as nb
Channels == {0, 5, 30}

\* the getters that take a channel number
IndexedGetters == {"get_digital_out", "get_digital_in", "get_analog_in"}

Getter(op, nb, d) ==
    CASE op = "get_cartesian_info" -> get_cartesian_info(d)
      [] op = "get_joint_data" -> get_joint_data(d)
      [] op = "get_digital_out" -> get_digital_out(d, nb)
      [] op = "get_digital_out_bits" -> get_digital_out_bits(d)
      [] op = "get_digital_in" -> get_digital_in(d, nb)
      [] op = "get_digital_in_bits" -> get_digital_in_bits(d)
      [] op = "get_analog_in" -> get_analog_in(d, nb)
      [] op = "get_analog_inputs" -> get_analog_inputs(d)
      [] op = "is_program_running" -> is_program_running(d)
      [] OTHER -> get_all_data(d)

\* a variant of the test in wait that never finds the timestamp unchanged
NeverTimedOut(tstamp, last) == FALSE

\* if tstamp == self.lastpacket_timestamp: raise TimeoutException
WaitTimedOut(tstamp, last) == tstamp = last

\* wait(), first statement: tstamp = self.lastpacket_timestamp
BeginWait(op) ==
    /\ rpc = "idle"
    /\ r_op' = op
    /\ r_tstamp' = lastpacket_timestamp
    /\ r_res' = NoResult
    /\ r_stamped' = FALSE
    /\ r_signalled' = FALSE
    /\ rpc' = "enter"
    /\ r_dead' = (wpc = "dead")
    /\ r_nb' = 0

\* __init__ after self.start(): self.wait()
RConstruct ==
    /\ constructed = "no"
    /\ BeginWait("__init__")
    /\ constructed' = "waiting"
    /\ UNCHANGED <<version, dataqueue, parseVars, scanVars, rtVars, closeVars, ghostVars, snapVars, workerVars, sharedVars,
                   queueVars, senderVars, r_deadline>>

\* wait() and get_all_data(wait=True) on the constructed monitor
RCallWait ==
    /\ constructed = "ok"
    /\ \E op \in {"wait", "get_all_data(wait=True)"} : BeginWait(op)
    /\ UNCHANGED <<version, dataqueue, parseVars, scanVars, rtVars, closeVars, ghostVars, snapVars, workerVars, sharedVars,
                   queueVars, senderVars, constructed, r_deadline>>

\* with self._dataEvent: self._dataEvent.wait(timeout) starts to wait
REnterWait ==
    /\ rpc = "enter"
    /\ r_deadline' = clock + TimeoutTicks
    /\ rpc' = "waiting"
    /\ UNCHANGED <<version, dataqueue, parseVars, scanVars, rtVars, closeVars, ghostVars, callVars, snapVars, workerVars, sharedVars,
                   queueVars, senderVars, constructed, r_op, r_tstamp, r_res,
                   r_stamped, r_signalled>>

\* self._dataEvent.wait(timeout) ends because the timeout has elapsed
RTimeout ==
    /\ rpc = "waiting"
    /\ clock >= r_deadline
    /\ rpc' = "woken"
    /\ UNCHANGED <<version, dataqueue, parseVars, scanVars, rtVars, closeVars, ghostVars, callVars, snapVars, workerVars, sharedVars,
                   queueVars, senderVars, constructed, r_op, r_tstamp, r_deadline,
                   r_res, r_stamped, r_signalled>>

\* the test after the wait: TimeoutException, or wait() returns; the
\* locals of wait are gone
RCheck ==
    /\ rpc = "woken"
    /\ IF WaitTimedOut(r_tstamp, lastpacket_timestamp)
       THEN /\ r_res' = Timeout
            /\ rpc' = "idle"
            /\ constructed' = IF r_op = "__init__" THEN "failed" ELSE constructed
       ELSE /\ r_res' = IF r_op = "get_all_data(wait=True)" THEN r_res ELSE Returned
            /\ rpc' = IF r_op = "get_all_data(wait=True)" THEN "read" ELSE "idle"
            /\ constructed' = IF r_op = "__init__" THEN "ok" ELSE constructed
    /\ r_tstamp' = 0
    /\ UNCHANGED <<version, dataqueue, parseVars, scanVars, rtVars, closeVars, ghostVars, callVars, snapVars, workerVars, sharedVars,
                   queueVars, senderVars, r_op, r_deadline, r_stamped, r_signalled>>

\* get_all_data(wait=True) after wait(): with self._dictLock: the copy
RRead ==
    /\ rpc = "read"
    /\ r_res' = get_all_data(dict)
    /\ rpc' = "idle"
    /\ held' = dict_refs
    /\ held_val' = dict
    /\ heap' = Collect(heap, Range(dict_refs))
    /\ UNCHANGED dict_refs
    /\ UNCHANGED <<version, dataqueue, parseVars, scanVars, rtVars, closeVars, ghostVars, callVars, workerVars, sharedVars,
                   queueVars, senderVars, constructed, r_op, r_tstamp, r_deadline,
                   r_stamped, r_signalled>>

\* a getter called with wait=False: one section under self._dictLock
RGet ==
    /\ constructed = "ok"
    /\ rpc = "idle"
    /\ \E op \in TypedGetters \cup {"get_all_data", "is_program_running"}, nb \in Channels :
         /\ r_op' = op
         /\ r_nb' = IF op \in IndexedGetters THEN nb ELSE 0
         /\ r_res' = Getter(op, nb, dict)
         /\ held' = IF op = "get_all_data" THEN dict_refs ELSE held
         /\ held_val' = IF op = "get_all_data" THEN dict ELSE held_val
         /\ heap' = IF op = "get_all_data" THEN Collect(heap, Range(dict_refs)) ELSE heap
    /\ UNCHANGED dict_refs
    /\ r_stamped' = FALSE
    /\ r_dead' = (wpc = "dead")
    /\ r_signalled' = FALSE
    /\ UNCHANGED <<version, dataqueue, parseVars, scanVars, rtVars, closeVars, ghostVars, workerVars, sharedVars,
                   queueVars, senderVars, constructed, rpc, r_tstamp, r_deadline>>

\* time passes
Tick ==
    /\ clock < MaxClock
    /\ clock' = clock + 1
    /\ UNCHANGED <<version, dataqueue, parseVars, scanVars, rtVars, closeVars, ghostVars, callVars, snapVars, workerVars,
                   dict, lastpacket_timestamp, running,
                   queueVars, senderVars, readerVars>>

(***************************************************************************)
(* Spec: the monitor is constructed, callers send programs, the worker     *)
(* drains the queue.                                                       *)
(***************************************************************************)
Init == InitMonitor

Next ==
    \/ \E s \in Senders : SCall(s)
    \/ \E s \in Senders : SLockQueue(s)
    \/ \E s \in Senders : SAppend(s)
    \/ \E s \in Senders : SWait(s)
    \/ \E s \in Senders : SReturn(s)
    \/ WPollEmpty
    \/ WPop
    \/ WSend
    \/ WSendFails
    \/ WNotify
    \/ WGetData
    \/ WFindNone
    \/ WRecv
    \/ WRecvFails
    \/ WParseStep
    \/ WParseReturn
    \/ WParseRaise
    \/ WStamp
    \/ WRunning
    \/ WNotifyAll
    \/ RConstruct
    \/ REnterWait
    \/ RTimeout
    \/ RCheck
    \/ Tick

Spec == Init /\ [][Next]_vars

(***************************************************************************)
(* SpecRead: the monitor is constructed, one caller reads it with wait,    *)
(* get_all_data and the typed getters; nobody sends a program.             *)
(***************************************************************************)
NextRead ==
    \/ WPollEmpty
    \/ WGetData
    \/ WFindNone
    \/ WRecvStatus
    \/ WRecvFails
    \/ WParseStep
    \/ WParseReturn
    \/ WParseRaise
    \/ WStamp
    \/ WRunning
    \/ WNotifyAll
    \/ RConstruct
    \/ RCallWait
    \/ REnterWait
    \/ RTimeout
    \/ RCheck
    \/ RRead
    \/ RGet
    \/ Tick

SpecRead == InitMonitor /\ [][NextRead]_vars

\* the steps the worker thread takes by itself, no socket call among them
WorkerInternal ==
    \/ WPollEmpty
    \/ WGetData
    \/ WFindNone
    \/ WParseStep
    \/ WParseReturn
    \/ WParseRaise
    \/ WStamp
    \/ WRunning
    \/ WNotifyAll

\* the worker thread alone with what arrives on its socket
NextDecode ==
    \/ WorkerInternal
    \/ WRecvStatus
    \/ WRecvModes
    \/ WRecvFails

\* the thread is scheduled as long as it can run; whether and when bytes
\* arrive is the peer's choice
SpecDecode == InitMonitor /\ [][NextDecode]_vars /\ WF_vars(WorkerInternal)
\* the steps run takes without waiting for the peer or for a lock holder
WorkerSteps ==
    \/ WorkerInternal
    \/ WPop
    \/ WNotify
    \/ WRecvEof
    \/ WExit

\* send returns or raises
SendOutcome == WSend \/ WSendFails

\* recv on an open socket returns bytes or raises within its timeout
RecvOutcome == WRecv \/ WRecvFails

\* the steps of a send_program call once it has been made
SenderSteps(s) == SLockQueue(s) \/ SAppend(s) \/ SWait(s) \/ SReturn(s)

\* the steps of close once it has been called
CloserSteps == CJoin \/ CCloseSocket

\* one send_program caller, the worker, a caller of close, and the peer
NextClose ==
    \/ SCall(1)
    \/ SenderSteps(1)
    \/ WorkerSteps
    \/ SendOutcome
    \/ RecvOutcome
    \/ RConstruct
    \/ REnterWait
    \/ RTimeout
    \/ RCheck
    \/ Tick
    \/ CClose
    \/ CloserSteps
    \/ PeerCloses

\* every thread is scheduled as long as it can run, and a socket call on an
\* open socket ends; when calls are made and what the peer does is free
SpecClose ==
    /\ InitMonitor
    /\ [][NextClose]_vars
    /\ WF_vars(WorkerSteps)
    /\ WF_vars(SendOutcome)
    /\ WF_vars(RecvOutcome)
    /\ WF_vars(SenderSteps(1))
    /\ WF_vars(CloserSteps)


(***************************************************************************)
(* RealtimeMonitor: the worker of the realtime channel and its buffer.     *)
(***************************************************************************)

\* the package sizes the controller announces
RtSizes == {100, 540, 692}

RtHeaders == { pack_i(n) : n \in RtSizes }

rtOthers ==
    <<version, dataqueue, parseVars, scanVars, closeVars, ghostVars, callVars,
      snapVars, workerVars, sharedVars, queueVars, senderVars, readerVars>>

\* run: _stop_event = False, connect, and the first test of the loop
RtRun ==
    /\ rt_pc = "new"
    /\ rt_stop_event' = FALSE
    /\ rt_pc' = "header"
    /\ rt_pkg' = <<>>
    /\ UNCHANGED <<rt_buffering, rt_buffer, rt_res, rt_popped, rt_due, rtOthers>>

\* _recv_bytes(4): one recv of at most the bytes still missing
RtRecvBytes ==
    /\ rt_pc = "header"
    /\ \E h \in RtHeaders, k \in 1..4 :
        /\ k <= 4 - Len(rt_pkg)
        /\ SubSeq(h, 1, Len(rt_pkg)) = rt_pkg
        /\ rt_pkg' = SubSeq(h, 1, Len(rt_pkg) + k)
        /\ rt_pc' = IF Len(rt_pkg) + k < 4 THEN "header" ELSE "size"
    /\ UNCHANGED <<rt_stop_event, rt_buffering, rt_buffer, rt_res, rt_popped, rt_due, rtOthers>>

\* _recv_rt_data after the header: pkgsize is unpacked, and the next line
\* reads the name pkgsizeu, which nothing binds: NameError ends the thread
\* before the packet is decoded, stored or appended to the buffer
RtNameError ==
    /\ rt_pc = "size"
    /\ rt_pc' = "dead"
    /\ rt_due' = IF rt_buffering THEN Append(rt_due, rt_pkg) ELSE rt_due
    /\ UNCHANGED <<rt_pkg, rt_stop_event, rt_buffering, rt_buffer, rt_res, rt_popped, rtOthers>>

start_buffering ==
    /\ rt_buffer' = <<>>
    /\ rt_buffering' = TRUE
    /\ UNCHANGED <<rt_pc, rt_pkg, rt_stop_event, rt_res, rt_popped, rt_due, rtOthers>>

stop_buffering ==
    /\ rt_buffering' = FALSE
    /\ UNCHANGED <<rt_pc, rt_pkg, rt_stop_event, rt_buffer, rt_res, rt_popped, rt_due, rtOthers>>

\* the whole body runs under _buffer_lock
try_pop_buffer ==
    /\ IF Len(rt_buffer) > 0
       THEN /\ rt_res' = Value(Head(rt_buffer))
            /\ rt_buffer' = Tail(rt_buffer)
            /\ rt_popped' = Append(rt_popped, Head(rt_buffer))
       ELSE /\ rt_res' = None
            /\ UNCHANGED <<rt_buffer, rt_popped>>
    /\ UNCHANGED <<rt_pc, rt_pkg, rt_stop_event, rt_buffering, rt_due, rtOthers>>

\* stop
RtStop ==
    /\ rt_stop_event' = TRUE
    /\ UNCHANGED <<rt_pc, rt_pkg, rt_buffering, rt_buffer, rt_res, rt_popped, rt_due, rtOthers>>

NextRealtime ==
    \/ RtRun
    \/ RtRecvBytes
    \/ RtNameError
    \/ start_buffering
    \/ stop_buffering
    \/ try_pop_buffer
    \/ RtStop

InitRealtime ==
    /\ version = InitialVersion
    /\ dataqueue = <<>>
    /\ ParseIdle
    /\ ScanIdle
    /\ MonIdle

SpecRealtime == InitRealtime /\ [][NextRealtime]_vars

(***************************************************************************)
(* The command hand-off with a worker that keeps iterating: the robot      *)
(* keeps sending, send and recv do not fail, nobody calls close.           *)
(***************************************************************************)
\* what the robot keeps sending: a group that decodes and one that does not
HandoffInputs == {Group(HealthyRobotMode(38, 7)), TruncatedGroup}

\* the batch of the first group the robot sends
FirstBatch == parse(Group(HealthyRobotMode(38, 7)), InitialVersion).allData

\* the monitor when its constructor has just returned: the worker has
\* stored the first group, set the timestamp and the running flag and woken
\* the constructor's wait(); no command has been sent yet
InitHandoff ==
    /\ version = <<3, 0>>
    /\ dataqueue = <<>>
    /\ p_pc = "idle"
    /\ p_data = <<>>
    /\ p_allData = <<>>
    /\ p_fed = 1
    /\ p_last = [ptype |-> 0, psize |-> 38, framed |-> TRUE, ok |-> TRUE, before |-> InitialVersion]
    /\ p_entry = InitialVersion
    /\ s_pc = "idle"
    /\ s_segs = <<>>
    /\ s_stream = <<>>
    /\ s_returned = <<>>
    /\ wpc = "loop"
    /\ cur = NoProgram
    /\ nrecv = 1
    /\ dict = FirstBatch
    /\ lastpacket_timestamp = 1
    /\ running = TRUE
    /\ clock = 0
    /\ prog_queue = <<>>
    /\ qlock = "free"
    /\ cond = [s \in Senders |-> "free"]
    /\ wire = <<>>
    /\ enq = <<>>
    /\ spc = [s \in Senders |-> "idle"]
    /\ sprog = [s \in Senders |-> <<>>]
    /\ sarg = [s \in Senders |-> <<>>]
    /\ constructed = "ok"
    /\ rpc = "idle"
    /\ r_op = "__init__"
    /\ r_tstamp = 0
    /\ r_deadline = 1
    /\ r_res = Returned
    /\ r_stamped = TRUE
    /\ r_signalled = TRUE
    /\ heap = Written(<<>>, NewRefs(1, FirstBatch, <<>>), FirstBatch)
    /\ dict_refs = NewRefs(1, FirstBatch, <<>>)
    /\ held = <<>>
    /\ held_val = <<>>
    /\ r_dead = FALSE
    /\ r_nb = 0
    /\ w_since_raise = "none"
    /\ trystop = FALSE
    /\ socket = "open"
    /\ cpc = "idle"
    /\ rt_pc = "new"
    /\ rt_pkg = <<>>
    /\ rt_stop_event = TRUE
    /\ rt_buffering = FALSE
    /\ rt_buffer = <<>>
    /\ rt_res = "none yet"
    /\ rt_popped = <<>>
    /\ rt_due = <<>>

\* recv returns a group, any number of times: nrecv, which bounds the
\* receptions of the other specifications, stands still
WRecvMore ==
    /\ wpc = "recv"
    /\ socket = "open"
    /\ \E tmp \in HandoffInputs : dataqueue' = dataqueue \o tmp
    /\ wpc' = "getdata"
    /\ UNCHANGED <<version, parseVars, scanVars, rtVars, closeVars, ghostVars, callVars, snapVars, cur, nrecv,
                   sharedVars, queueVars, senderVars, readerVars>>

\* WGetData any number of times: the count of parse calls, which names the
\* records for a caller that holds an old snapshot, stands still
WGetDataMore ==
    /\ wpc = "getdata"
    /\ find_first_packet(dataqueue).found
    /\ dataqueue' = find_first_packet(dataqueue).rest
    /\ p_data' = find_first_packet(dataqueue).frame
    /\ p_allData' = EmptyDict
    /\ p_pc' = "loop"
    /\ wpc' = "parse"
    /\ p_entry' = version
    /\ UNCHANGED <<version, p_fed, p_last, scanVars, rtVars, closeVars, ghostVars, callVars, snapVars, cur, nrecv,
                   sharedVars, queueVars, senderVars, readerVars>>

\* WStamp any number of times: the rank of the reading of time.time(),
\* which only a call of wait() compares, stands still
WStampMore ==
    /\ wpc = "stamp"
    /\ r_stamped' = (r_stamped \/ InWindow)
    /\ wpc' = "running"
    /\ UNCHANGED <<version, dataqueue, parseVars, scanVars, rtVars, closeVars, ghostVars, callVars, snapVars, cur, nrecv,
                   dict, lastpacket_timestamp, running, clock, queueVars, senderVars,
                   constructed, rpc, r_op, r_tstamp, r_deadline, r_res, r_signalled>>

\* the statements of run when send does not fail
HandoffWorker ==
    \/ WPollEmpty
    \/ WPop
    \/ WSend
    \/ WNotify
    \/ WGetDataMore
    \/ WFindNone
    \/ WParseStep
    \/ WParseReturn
    \/ WParseRaise
    \/ WStampMore
    \/ WRunning
    \/ WNotifyAll

NextHandoff ==
    \/ \E s \in Senders : SCall(s)
    \/ \E s \in Senders : SenderSteps(s)
    \/ HandoffWorker
    \/ WRecvMore

\* every thread is scheduled as long as it can run and the robot keeps
\* sending; when send_program is called is free
SpecHandoff ==
    /\ InitHandoff
    /\ [][NextHandoff]_vars
    /\ WF_vars(HandoffWorker)
    /\ WF_vars(WRecvMore)
    /\ \A s \in Senders : WF_vars(SenderSteps(s))

(***************************************************************************)
(* Properties of send_program and the worker, under Spec.                  *)
(***************************************************************************)
WrittenAt(s) == {i \in 1..Len(wire) : wire[i].id = s}

Queued(s) == \E j \in 1..Len(prog_queue) : prog_queue[j].id = s

\* C1: send_program returns to its caller only after the worker has
\* written that command's bytes to the socket; no caller has returned
\* while its command is still in the queue or not yet written.
C1_ReturnsOnlyAfterWrite ==
    \A s \in Senders :
        spc[s] = "returned" =>
            /\ [id |-> s, program |-> sprog[s]] \in Range(wire)
            /\ ~Queued(s)

\* a caller has returned while another caller's command waits in the queue
C1_Witness ==
    \E s, t \in Senders :
        /\ spc[s] = "returned"
        /\ spc[t] = "waiting"
        /\ Queued(t)

\* C2: commands are written to the socket in the order in which they were
\* appended to the queue: what is written is always a prefix of the
\* append order.
C2_WrittenInAppendOrder ==
    /\ Len(wire) <= Len(enq)
    /\ \A i \in 1..Len(wire) : wire[i].id = enq[i]

\* two commands written, appended in the opposite order of their callers'
\* numbers, the second appended before the first was taken
C2_Witness ==
    /\ Len(wire) = 2
    /\ enq[1] > enq[2]
    /\ wire[1].id = enq[1]
    /\ wire[2].id = enq[2]

\* C3: every command passed to send_program is written exactly once by
\* the time its caller returns; no command is written twice, and nothing
\* is written that was not appended to the queue.
C3_ExactlyOnce ==
    /\ \A s \in Senders : Cardinality(WrittenAt(s)) <= 1
    /\ \A i \in 1..Len(wire) :
           /\ wire[i].id \in Range(enq)
           /\ wire[i].program = sprog[wire[i].id]
    /\ \A s \in Senders : spc[s] = "returned" => Cardinality(WrittenAt(s)) = 1

\* every caller has returned and the wire holds one write per caller
C3_Witness ==
    /\ \A s \in Senders : spc[s] = "returned"
    /\ Len(wire) = NumSenders
    /\ prog_queue = <<>>

(***************************************************************************)
(* Properties of wait and the getters, under SpecRead.                     *)
(***************************************************************************)
\* C4: a waiting read raises TimeoutException only when the worker made no
\* successful update between the start of the call and its deadline: no
\* call has raised TimeoutException when the worker stamped and signalled
\* an update inside that window.
C4_TimeoutOnlyWithoutUpdate ==
    (r_op \in WaitingCalls /\ r_res.kind = "Timeout") => ~r_signalled

\* C5: when the worker makes no successful update from the start of
\* wait(timeout) until the timeout has elapsed and wait tests the
\* timestamp, the call raises TimeoutException: it has not returned, and
\* get_all_data(wait=True) has given no snapshot.
C5_NoUpdateMeansTimeout ==
    (r_op \in WaitingCalls /\ ~r_stamped) =>
        /\ rpc # "read"
        /\ r_res.kind \notin {"returned", "value"}

\* get_all_data(wait=True) raised TimeoutException: the timeout elapsed
\* and the worker made no update
C5_Witness ==
    /\ r_op = "get_all_data(wait=True)"
    /\ rpc = "idle"
    /\ r_res.kind = "Timeout"
    /\ ~r_stamped
    /\ clock >= r_deadline

\* C10: a typed getter returns None, and does not raise, when the packet
\* type it reads is absent from self._dict.
C10_AbsentTypeGivesNone ==
    (r_op \in TypedGetters /\ r_res.absent) => r_res.kind = "None"

\* C11: a snapshot returned by get_all_data does not change in the
\* caller's hands: whatever the worker stores later, the mapping the
\* caller holds has the names and, in every record, the fields it had
\* when it was returned.
C11_SnapshotImmutable ==
    /\ DOMAIN held = DOMAIN held_val
    /\ held \in [DOMAIN held -> DOMAIN heap]
    /\ Deref(heap, held) = held_val

\* the caller holds a snapshot and the worker has since stored another
\* RobotModeData record
C11_Witness ==
    /\ "RobotModeData" \in DOMAIN held
    /\ "RobotModeData" \in DOMAIN dict
    /\ dict["RobotModeData"] # held_val["RobotModeData"]
    /\ DOMAIN dict # DOMAIN held

\* C12: the constructor returns normally only after the worker has made
\* a successful update, and from then on self._dict is never empty.
C12_ConstructedHoldsSnapshot ==
    constructed = "ok" =>
        /\ lastpacket_timestamp > 0
        /\ DOMAIN dict # {}

\* constructed, and a later group without RobotModeData has replaced the
\* snapshot
C12_Witness ==
    /\ constructed = "ok"
    /\ "RobotModeData" \notin DOMAIN dict
    /\ "SecondaryClientData" \in DOMAIN dict

\* C13: once send or recv has failed in the worker, the next call of
\* wait or get_all_data on the constructed monitor fails with a
\* connection error: no such call begun after the failure ends in any
\* other way.
C13_FailedLinkRaisesConnectionError ==
    (/\ r_dead
     /\ rpc = "idle"
     /\ r_op \in {"wait", "get_all_data", "get_all_data(wait=True)"})
        => r_res.kind = "ConnectionError"

\* the next frame in self._dataqueue is a well-formed group with
\* RobotModeData
StatusFrameQueued ==
    /\ find_first_packet(dataqueue).found
    /\ find_first_packet(dataqueue).frame \in StatusFrames

\* C14: a ParsingException does not end the receive loop: when a frame's
\* decode has raised and a well-formed frame with RobotModeData is next,
\* the worker decodes it, stores it and signals the waiters.
C14_DecodeFailureKeepsLoop ==
    (w_since_raise = "raised" /\ StatusFrameQueued)
        ~> (w_since_raise = "recovered" /\ "RobotModeData" \in DOMAIN dict)

\* a frame raised, and the worker has stored and signalled a later one
C14_Witness ==
    /\ w_since_raise = "recovered"
    /\ "RobotModeData" \in DOMAIN dict
    /\ wpc = "loop"
    /\ lastpacket_timestamp > 0


(***************************************************************************)
(* Properties of close.                                                    *)
(***************************************************************************)
\* C15: no caller of send_program is blocked indefinitely: every call that
\* has been made returns, also when close() stops the link or the worker
\* thread has ended with the command still in the queue
C15_SendProgramReturns ==
    \A s \in Senders : (spc[s] = "lock") ~> (spc[s] = "returned")

\* C16: close() never blocks its caller indefinitely: once the stop has
\* been requested the worker exits, the socket is closed and close returns,
\* also when no further complete frame arrives
C16_CloseReturns ==
    (cpc = "join") ~> (cpc = "returned" /\ socket = "closed")

\* C17: the socket is closed only after the worker thread has been joined:
\* in no state is the socket closed while run is at any statement, so the
\* worker never calls send or recv on a closed socket
C17_ClosedOnlyAfterJoin ==
    socket = "closed" => wpc \in {"exited", "dead"}

C17_Witness ==
    /\ socket = "closed"
    /\ cpc = "returned"
    /\ wpc = "exited"
    /\ wire # <<>>


(***************************************************************************)
(* Locks and socket calls.                                                 *)
(***************************************************************************)
\* C18: no thread holds a lock while it executes a blocking socket call:
\* the worker, the only thread that calls send and recv, holds no lock
\* while it is at either call
C18_NoLockAcrossSocketCall ==
    wpc \in {"send", "recv"} =>
        /\ qlock # "worker"
        /\ \A s \in Senders : cond[s] # "worker"


(***************************************************************************)
(* The bytes of a command.                                                 *)
(***************************************************************************)
\* C19: the bytes written for a command are the command with its trailing
\* whitespace removed, followed by exactly one newline
C19_WrittenStrippedWithOneNewline ==
    \A i \in 1..Len(wire) :
        wire[i].program = RStrip(sarg[wire[i].id]) \o <<"\n">>


(***************************************************************************)
(* The running flag.                                                       *)
(***************************************************************************)
\* C20: after every successful update (the worker is about to signal it)
\* running is true iff in the RobotModeData just stored robotMode is 7
\* when the version is at least (3, 0) and 0 otherwise, the robot is
\* enabled, connected and powered, and it is in neither stop
C20_RunningIffHealthy ==
    wpc = "signal" =>
        LET r == dict["RobotModeData"]
            expected == IF version[1] >= 3 THEN 7 ELSE 0
        IN  running <=> /\ r["robotMode"] = expected
                        /\ r["isRealRobotEnabled"]
                        /\ r["isRobotConnected"]
                        /\ r["isPowerOnRobot"]
                        /\ ~r["isEmergencyStopped"]
                        /\ ~r["isSecurityStopped"]

\* a robot of firmware before 3.0 in mode 0 has been found running
C20_Witness ==
    /\ wpc = "signal"
    /\ running
    /\ version = InitialVersion
    /\ dict["RobotModeData"]["robotMode"] = 0


(***************************************************************************)
(* Properties of the decoded fields (checked under SpecFields).            *)
(***************************************************************************)
\* the integer a run of bytes stands for, big-endian, in two's complement
RECURSIVE Unsigned(_)
Unsigned(b) == IF Len(b) = 0 THEN 0 ELSE Unsigned(SubSeq(b, 1, Len(b) - 1)) * 256 + b[Len(b)]

TwosComplement(b) ==
    IF b[1] >= 128 THEN Unsigned(b) - Unsigned(<<1>> \o [k \in 1..Len(b) |-> 0])
    ELSE Unsigned(b)

\* the iteration decodes a packet of this type and does not raise
Decodes(ptype) ==
    /\ p_pc = "loop"
    /\ Len(p_data) >= 5
    /\ p_data[5] = ptype
    /\ p_pc' = "loop"

\* C21: a MasterBoardData packet decoded while the version is at least
\* (3, 0) gives back the two 32-bit values that were encoded into it; while
\* the version is below (3, 0) the two fields are the first two 16-bit
\* words of the payload
C21_MasterBoardStep ==
    Decodes(3) =>
        LET r == p_allData'["MasterBoardData"] IN
        IF version[1] >= 3
        THEN \A pair \in DigitalPairs :
                 SubSeq(p_data, 1, Len(MasterBoardOf(pair))) = MasterBoardOf(pair)
                     => /\ r["digitalInputBits"] = pair[1]
                        /\ r["digitalOutputBits"] = pair[2]
        ELSE /\ r["digitalInputBits"] = TwosComplement(SubSeq(p_data, 6, 7))
             /\ r["digitalOutputBits"] = TwosComplement(SubSeq(p_data, 8, 9))

C21_DigitalWordsByVersion == [][C21_MasterBoardStep]_vars

\* the least and the greatest 32-bit value have been read back under 3.0
C21_Witness ==
    /\ p_last.ptype = 3
    /\ p_last.ok
    /\ p_last.before = <<3, 0>>
    /\ "MasterBoardData" \in DOMAIN p_allData
    /\ p_allData["MasterBoardData"]["digitalInputBits"] = MinInt32
    /\ p_allData["MasterBoardData"]["digitalOutputBits"] = 2147483647



(***************************************************************************)
(* Properties of the digital getters (checked under SpecRead).             *)
(***************************************************************************)
\* bit n of an integer in two's complement, by halving
RECURSIVE BitByHalving(_, _)
BitByHalving(v, n) == IF n = 0 THEN v % 2 ELSE BitByHalving((v - (v % 2)) \div 2, n - 1)

\* a getter without wait is called and returns: no step of the worker, of
\* the clock or of a waiting call
GetterStep ==
    /\ rpc = "idle"
    /\ rpc' = "idle"
    /\ constructed = "ok"
    /\ dict' = dict
    /\ wpc' = wpc
    /\ clock' = clock
    /\ UNCHANGED <<dataqueue, parseVars>>

\* C22: with a MasterBoardData record stored, get_digital_out(n) returns 1
\* if bit n of digitalOutputBits is set and 0 otherwise, get_digital_in(n)
\* the same for digitalInputBits, also when the stored value is negative
C22_DigitalStep ==
    (GetterStep /\ "MasterBoardData" \in DOMAIN dict) =>
        /\ r_op' = "get_digital_out" =>
               r_res' = Value(BitByHalving(dict["MasterBoardData"]["digitalOutputBits"], r_nb'))
        /\ r_op' = "get_digital_in" =>
               r_res' = Value(BitByHalving(dict["MasterBoardData"]["digitalInputBits"], r_nb'))

C22_DigitalBit == [][C22_DigitalStep]_vars

\* channel 5 of the outputs has been read as 0 from a negative word
C22_Witness ==
    /\ r_op = "get_digital_out"
    /\ r_nb = 5
    /\ r_res = Value(0)
    /\ "MasterBoardData" \in DOMAIN dict
    /\ dict["MasterBoardData"]["digitalOutputBits"] = -33


\* the packet the iteration is about to decode is pkt
NextPacketIs(pkt) ==
    /\ p_pc = "loop"
    /\ Len(p_data) >= Len(pkt)
    /\ SubSeq(p_data, 1, Len(pkt)) = pkt

\* C23: a type-20 packet with robotMessageType 2 decodes, without error,
\* into a popupMessage record whose warning, error, messageTitle (titleSize
\* bytes) and messageText (the remaining bytes) are the encoded ones
C23_PopupStep ==
    \A c \in PopupCases :
        NextPacketIs(PopupPacket(c)) =>
            /\ p_pc' = "loop"
            /\ "popupMessage" \in DOMAIN p_allData'
            /\ LET r == p_allData'["popupMessage"] IN
                /\ r["warning"] = c.warning
                /\ r["error"] = c.error
                /\ r["titleSize"] = Len(c.title)
                /\ r["messageTitle"] = c.title
                /\ r["messageText"] = c.text

C23_PopupDecoded == [][C23_PopupStep]_vars

\* a popup with a two-byte title and a three-byte text has been decoded
C23_Witness ==
    /\ p_last.ptype = 20
    /\ p_last.ok
    /\ "popupMessage" \in DOMAIN p_allData
    /\ p_allData["popupMessage"]["messageTitle"] = <<84, 105>>
    /\ p_allData["popupMessage"]["messageText"] = <<111, 107, 33>>


(***************************************************************************)
(* Properties of the realtime buffer, under SpecRealtime.                  *)
(***************************************************************************)

DecodingRaises ==
    /\ wpc = "parse"
    /\ (p_pc = "loop" /\ p_pc' = "raised") \/ (p_pc = "raised" /\ p_pc' = "idle")

\* C25: when decoding a frame raises ParsingException, the worker leaves
\* the stored snapshot, the running flag and the last-update timestamp as
\* they were, wakes no waiter, and goes back to the top of its loop
C25_RaiseStep ==
    DecodingRaises =>
        /\ dict' = dict
        /\ running' = running
        /\ lastpacket_timestamp' = lastpacket_timestamp
        /\ rpc' = rpc
        /\ wpc' = IF p_pc' = "raised" THEN "parse" ELSE "loop"

C25_ParseErrorChangesNothing == [][C25_RaiseStep]_vars

\* the worker is back at the top of its loop after a ParsingException,
\* with a snapshot stored before and a caller still waiting
C25_Witness ==
    /\ w_since_raise = "raised"
    /\ wpc = "loop"
    /\ rpc = "waiting"
    /\ "RobotModeData" \in DOMAIN dict
    /\ lastpacket_timestamp > 0


\* parse has returned its batch to run, which goes on after the try
BatchReturned == wpc = "parse" /\ p_pc = "loop" /\ p_pc' = "idle"

\* C26: when a frame decodes without error but its batch has no
\* RobotModeData record, the worker leaves the snapshot unchanged: only a
\* batch that contains RobotModeData replaces the snapshot
C26_BatchStep ==
    (BatchReturned /\ "RobotModeData" \notin DOMAIN p_allData) => dict' = dict

C26_OnlyModeBatchesReplaceSnapshot == [][C26_BatchStep]_vars


\* C27: a successful update replaces the whole snapshot with the batch
\* just decoded: the snapshot's packet-type names are exactly those of the
\* batch, and a name stored by an earlier update that the batch lacks is
\* gone
C27_UpdateStep ==
    (BatchReturned /\ "RobotModeData" \in DOMAIN p_allData) =>
        /\ DOMAIN dict' = DOMAIN p_allData
        /\ \A k \in DOMAIN dict \ DOMAIN p_allData : k \notin DOMAIN dict'
        /\ dict' = p_allData

C27_UpdateReplacesSnapshot == [][C27_UpdateStep]_vars

\* a snapshot the caller obtained earlier held MasterBoardData, and the
\* update just stored comes from a batch without it
C27_Witness ==
    /\ wpc = "stamp"
    /\ "MasterBoardData" \in DOMAIN held_val
    /\ "RobotModeData" \in DOMAIN dict
    /\ "MasterBoardData" \notin DOMAIN dict


(***************************************************************************)
(* Properties of find_first_packet and _get_data, under SpecScan.          *)
(***************************************************************************)

\* _get_data returns a frame in this step
FrameReturned == s_pc = "find" /\ Len(s_returned') = Len(s_returned) + 1

\* find_first_packet returned None in this step
NothingReturned == s_pc = "find" /\ s_pc' = "recv"

\* C28: when find_first_packet returns (frame, rest), the buffer it was
\* given is some discarded prefix, then the frame, then rest; the frame's
\* header holds type 16 and a size from 5 to 2000, and the frame is as
\* long as that size.  When it returns None nothing is handed to the
\* decoder and the buffer keeps every byte, also through the recv after.
C28_ScanStep ==
    /\ FrameReturned =>
          LET frame == s_returned'[Len(s_returned')]
              rest == dataqueue'
              glen == Len(dataqueue) - Len(frame) - Len(rest)
          IN  /\ s_returned' = Append(s_returned, frame)
              /\ glen >= 0
              /\ dataqueue = SubSeq(dataqueue, 1, glen) \o frame \o rest
              /\ Len(frame) >= 5
              /\ frame[5] = 16
              /\ frame[1] < 128
              /\ Unsigned(SubSeq(frame, 1, 4)) \in 5..2000
              /\ Len(frame) = Unsigned(SubSeq(frame, 1, 4))
    /\ NothingReturned => dataqueue' = dataqueue /\ s_returned' = s_returned
    /\ s_pc = "recv" => IsPrefix(dataqueue, dataqueue') /\ s_returned' = s_returned

C28_FrameIsWholeAndValid == [][C28_ScanStep]_vars

\* a frame was returned from behind three bytes of garbage, a frame has
\* been found incomplete since, and its bytes are still in the buffer
C28_Witness ==
    /\ s_pc = "recv"
    /\ Len(s_segs) = 3
    /\ s_segs[1] = [kind |-> "garbage", bytes |-> <<0, 16, 255>>]
    /\ s_returned = <<Packet(16, <<7>>)>>
    /\ dataqueue = <<0, 0, 0, 10, 16, 0>>


\* C29: inside a well-framed group, a sub-packet of type 9, of an unknown
\* type, or of type 20 with an unknown robotMessageType adds no record and
\* raises no error: parse goes on with the bytes that follow it, so the
\* other sub-packets of the group are decoded as they would be without it
C29_SkipStep ==
    \A x \in SkippedPackets :
        NextPacketIs(x) =>
            /\ p_pc' = "loop"
            /\ p_allData' = p_allData
            /\ p_data' = SubSeq(p_data, Len(x) + 1, Len(p_data))
            /\ version' = version

C29_SkippedPacketsLeaveNoTrace == [][C29_SkipStep]_vars

\* parse is about to return the batch of a group whose RobotModeData came
\* before a message of unknown type and whose MasterBoardData came after
C29_Witness ==
    /\ p_pc = "loop"
    /\ p_data = <<>>
    /\ p_last.ptype = 3
    /\ DOMAIN p_allData = {"SecondaryClientData", "RobotModeData", "MasterBoardData"}
    /\ p_allData["MasterBoardData"]["digitalInputBits"] = 1
    /\ p_allData["MasterBoardData"]["digitalOutputBits"] = -33
    /\ p_allData["SecondaryClientData"]["size"] = 5 + 38 + Len(MessagePacket(4)) + Len(MasterBoardOf(<<1, -33>>))


\* the k-th double of a CartesianInfo packet, as its eight bytes
CartesianField(pkt, k) == SubSeq(pkt, 6 + 8 * (k - 1), 5 + 8 * k)

\* the record holds the first n doubles of pkt under the first n names
HoldsFields(rec, pkt, n) ==
    /\ DOMAIN rec = {"size", "type"} \cup {KeysCart12[k + 2] : k \in 1..n}
    /\ rec["size"] = Len(pkt)
    /\ rec["type"] = 4
    /\ \A k \in 1..n : rec[KeysCart12[k + 2]] = CartesianField(pkt, k)

\* the fields of a record other than the packet's size and type
ValueFields(rec) == DOMAIN rec \ {"size", "type"}

\* C30, as claimed: a CartesianInfo packet is decoded with the 6-field
\* layout (X, Y, Z, Rx, Ry, Rz only) when the version is below (3, 2) at
\* that moment, and otherwise with a 13-field layout that adds the TCP
\* offset
C30_ClaimedStep ==
    \A n \in {6, 12} :
        (NextPacketIs(CartesianPacket(n)) /\ p_pc' = "loop") =>
            Cardinality(ValueFields(p_allData'["CartesianInfo"])) =
                IF version[1] < 3 \/ (version[1] = 3 /\ version[2] < 2) THEN 6 ELSE 13

C30_SixOrThirteenFields == [][C30_ClaimedStep]_vars

\* C30, amended: a CartesianInfo packet is decoded into X, Y, Z, Rx, Ry, Rz
\* only when the version is below (3, 2) at that moment, and otherwise
\* into those six and the six TCP offsets, twelve fields (a packet without
\* the offsets then raises); the version is what the RobotModeData packets
\* decoded before left: only the decoding of a RobotModeData packet
\* changes it
C30_CartesianStep ==
    /\ \A n \in {6, 12} :
          NextPacketIs(CartesianPacket(n)) =>
              IF version[1] < 3 \/ (version[1] = 3 /\ version[2] < 2)
              THEN /\ p_pc' = "loop"
                   /\ HoldsFields(p_allData'["CartesianInfo"], CartesianPacket(n), 6)
              ELSE IF n = 12
              THEN /\ p_pc' = "loop"
                   /\ HoldsFields(p_allData'["CartesianInfo"], CartesianPacket(n), 12)
              ELSE p_pc' = "raised"
    /\ version' # version =>
          /\ p_pc = "loop"
          /\ Len(p_data) >= 5
          /\ p_data[5] = 0
          /\ Unsigned(SubSeq(p_data, 1, 4)) \in {38, 46, 47}
          /\ version' = <<3, CASE p_data[4] = 38 -> 0 [] p_data[4] = 46 -> 2 [] OTHER -> 5>>

C30_CartesianLayoutByVersion == [][C30_CartesianStep]_vars

\* a CartesianInfo packet with the offsets, alone in its group, was decoded
\* into all twelve fields under the version (3, 5) an earlier group had left
C30_Witness ==
    /\ p_last.ptype = 4
    /\ p_last.ok
    /\ p_last.before = <<3, 5>>
    /\ "RobotModeData" \notin DOMAIN p_allData
    /\ "CartesianInfo" \in DOMAIN p_allData
    /\ Cardinality(ValueFields(p_allData["CartesianInfo"])) = 12
    /\ "tcpOffsetRz" \in DOMAIN p_allData["CartesianInfo"]


(***************************************************************************)
(* Properties of _get_data's arrays, under SpecFields.                     *)
(***************************************************************************)

\* the iteration decodes a popup message (type 20, robotMessageType 2)
\* without raising
PopupDecoded ==
    /\ p_pc = "loop"
    /\ Len(p_data) >= 18
    /\ p_data[5] = 20
    /\ p_data[15] = 2
    /\ p_pc' = "loop"

\* C31: an array that is not the last field of its layout takes exactly
\* the number of bytes its size field gives, whatever the payload: the
\* decoded array is that long and the next field starts at the byte after
\* it; the last array takes all the bytes that remain.  Stated on the
\* popup layout: messageTitle is titleSize bytes long and messageText is
\* what follows those bytes
C31_PopupArrayStep ==
    PopupDecoded =>
        LET r == p_allData'["popupMessage"]
            pkt == SubSeq(p_data, 1, Unsigned(SubSeq(p_data, 1, 4)))
        IN  /\ Len(r["messageTitle"]) = r["titleSize"]
            /\ r["messageTitle"] = SubSeq(pkt, 19, 18 + r["titleSize"])
            /\ r["messageText"] = SubSeq(pkt, 19 + r["titleSize"], Len(pkt))

C31_ArrayTakesItsSize == [][C31_PopupArrayStep]_vars


(***************************************************************************)
(* Properties of the command hand-off, under SpecHandoff.                  *)
(***************************************************************************)

\* the worker is about to notify a command's condition while its caller has
\* not yet reached data.condition.wait()
NotifiedBeforeWaiting ==
    /\ wpc = "notify"
    /\ cond[cur.id] = "free"
    /\ spc[cur.id] # "waiting"

\* C32: with a worker loop that keeps iterating and fair scheduling, every
\* send_program call that has been made returns, for each of the
\* concurrent callers; the two lock orders never block each other for
\* good, and the worker never notifies a command before its caller waits
C32_HandoffIsLive ==
    /\ [](~NotifiedBeforeWaiting)
    /\ \A s \in Senders : (spc[s] = "lock") ~> (spc[s] = "returned")

\* one caller has returned, and the worker holds the queue lock and is
\* about to notify the other, which waits; a frame that did not decode
\* came in between
C32_Witness ==
    /\ \E s, t \in Senders :
           /\ spc[s] = "returned"
           /\ spc[t] = "waiting"
           /\ wpc = "notify"
           /\ cur.id = t
    /\ qlock = "worker"
    /\ w_since_raise = "raised"


(***************************************************************************)
(* Properties of the snapshot after construction, under SpecRead.          *)
(***************************************************************************)

\* C33: in every state after a successful construction the stored snapshot
\* holds a RobotModeData record, and no call of is_program_running has
\* read an absent key
C33_SnapshotHoldsRobotMode ==
    constructed = "ok" =>
        /\ "RobotModeData" \in DOMAIN dict
        /\ ~(r_op = "is_program_running" /\ r_res.kind = "KeyError")


\* ---------------------------------------------------------------------
\* The protocol version and a decode that aborts

\* C34: a frame whose decode aborts with ParsingException leaves the
\* protocol version unchanged: when parse is left by the exception,
\* self.version is what it was when that call of parse began
C34_AbortedFrameKeepsVersion ==
    p_pc = "raised" => version = p_entry


\* ---------------------------------------------------------------------
\* Termination of parse

\* the bytes one iteration of "while data:" takes off the front of data
Consumed(data) ==
    IF get_header(data).packet_type = 16 THEN 5 ELSE get_header(data).packet_size

C35_IterationStep ==
    (p_pc = "loop" /\ Len(p_data) > 0) =>
        \/ UNCHANGED parseVars
        \/ p_pc' = "raised"
        \/ /\ p_pc' = "loop"
           /\ Consumed(p_data) >= 5
           /\ Consumed(p_data) <= Len(p_data)
           /\ p_data' = PyFrom(p_data, Consumed(p_data))

\* C35: parse terminates on every finite frame: an iteration of the loop
\* either raises ParsingException or takes at least five bytes off the
\* data still to parse (exactly five for a type-16 header, the declared
\* size for any other sub-packet), so a decode that has begun ends with a
\* batch or with a ParsingException
C35_ParseTerminates ==
    /\ [][C35_IterationStep]_vars
    /\ (p_pc = "loop") ~> (p_pc # "loop")

\* a sub-packet other than the group header has been taken off and more
\* data is left for the next iteration
C35_Witness ==
    /\ p_pc = "loop"
    /\ p_last.ok /\ p_last.ptype # 16 /\ p_last.psize > 5
    /\ Len(p_data) > 0


\* ---------------------------------------------------------------------
\* The realtime buffer and the buffering flag

\* the worker is done with the packet whose header it has read
SampleHandled == rt_pc = "size" /\ rt_pc' # "size"

C36_FlagStep ==
    /\ SampleHandled =>
           rt_buffer' = IF rt_buffering THEN Append(rt_buffer, rt_pkg) ELSE rt_buffer
    /\ (~rt_buffering /\ ~rt_buffering') => Len(rt_buffer') <= Len(rt_buffer)
    /\ Len(rt_buffer') > Len(rt_buffer) => SampleHandled

=============================================================================
